---- MODULE Spec2Model ----
(***************************************************************************)
(* Model of simplerouter (src/router.go): router scopes over a shared      *)
(* route table, middleware composition at registration, per-path dispatch  *)
(* with method-not-allowed, and the path joiner.                           *)
(*                                                                         *)
(* Strings that the code inspects character by character (prefixes and     *)
(* paths) are sequences of tokens: the token "/" is the slash and any      *)
(* other token ("a", "api", "users") is a non-empty run of characters      *)
(* without a slash, so "/api/v1" is <<"/","api","/","v1">>.  joinPaths     *)
(* only looks at whether the first or last character is a slash.  Method   *)
(* names, middleware and handler identities are only compared for          *)
(* equality and are TLA+ strings.                                          *)
(*                                                                         *)
(* A HandlerFunc value is a non-empty sequence: <<h>> is the user handler  *)
(* h, and <<m>> \o f is the closure returned by middleware m applied to f. *)
(*                                                                         *)
(* The ServeMux, the routes map and the routeInfo slice are heap objects:  *)
(* a Router value holds their addresses, and the variables mux, routes and *)
(* routeInfo give the object at each address.                              *)
(***************************************************************************)
EXTENDS Integers, Sequences, FiniteSets, TLC

VARIABLES
    scopes,     \* the Router values created so far (New() and its derivations)
    routes,     \* heap of routes maps: address -> (path -> (method -> handler))
    mux,        \* heap of ServeMuxes: address -> sequence of bindings
    routeInfo,  \* heap of routeInfo slices: address -> sequence of RouteInfo
    calls,      \* history: receiver and arguments of every Handle call
    resp,       \* the response of the request being served, if any
    jbase, jpath, jres, jpc,  \* a direct call joinPaths(jbase, jpath)
    builders,   \* the RouteBuilder objects created so far, in creation order
    comp,       \* one request through the closure Compression() wraps a handler in
    reg,        \* a Handle call in progress, statement by statement
    reqs,       \* the requests being served concurrently, statement by statement
    printed,    \* what the last PrintRoutes call wrote to standard output
    alog        \* one request through the closure AccessLogging() wraps a handler in

vars == <<scopes, routes, mux, routeInfo, calls, resp, jbase, jpath, jres, jpc,
          builders, comp, reg, reqs, printed, alog>>
joinVars == <<jbase, jpath, jres, jpc>>
auxVars == <<builders, comp, reg, reqs>>
outVars == <<printed, alog>>

\* ---------------------------------------------------------------- bounds
MaxScopes == 3
MaxCalls == 2
MaxJoinLen == 3
MaxBuilders == 1
MaxBuilderMws == 2
MaxWrites == 2
MaxReqs == 2
MaxSinkCalls == 3

\* ---------------------------------------------------------------- inputs
StatusMethodNotAllowed == 405
StatusOK == 200

\* the k-th registration passes the closure HandlerIds[k]: every func
\* literal is a closure value of its own
HandlerIds == <<"h1", "h2", "h3", "h4", "h5", "h6">>
Methods == {"GET", "POST"}
ReqMethods == {"GET", "POST", "PUT"}

S_empty == << >>
S_api == <<"api">>
S_sl_api == <<"/", "api">>
S_sl_api_sl == <<"/", "api", "/">>
S_sl_v1 == <<"/", "v1">>
S_v1 == <<"v1">>
S_sl_status == <<"/", "status">>
S_status == <<"status">>
S_sl_api_sl_v1 == <<"/", "api", "/", "v1">>
S_sl_api_sl_v1_sl_status == <<"/", "api", "/", "v1", "/", "status">>

\* Spec: registration through scopes and dispatch
GroupArgs == {S_api}
PathArgs == {S_empty, S_sl_api}
UseArgs == {<<"m1", "m2">>}

\* ChainSpec: the per-method calls with extra middlewares
ChainUseArgs == {<<"m1">>, <<"m2">>}
ChainExtraArgs == {<< >>, <<"m1", "m2">>}

\* BuildSpec: route builders
BuildUseArgs == {<<"m3">>}
RbUseArgs == {<<"m1">>, <<"m2">>, <<"m1", "m2">>}

\* WithSpec: scopes derived by With
WithArgs == {<<"m1">>, <<"m2">>}

\* AccumSpec: chains of derivations
AccumUseArgs == {<<"m1">>, <<"m2">>}
AccumWithArgs == {<<"m2">>}
AccumExtraArgs == {<<"m3">>}

\* NestSpec: nested groups
NestGroupArgs == {S_sl_api, S_sl_v1, S_v1, S_sl_api_sl}
NestPathArgs == {S_empty, S_sl_status}

\* the address space of the heap; New() allocates address 1
Addrs == 1..2

\* ---------------------------------------------------------------- helpers
Range(s) == {s[i] : i \in DOMAIN s}

HasPrefixSlash(s) == Len(s) > 0 /\ s[1] = "/"
HasSuffixSlash(s) == Len(s) > 0 /\ s[Len(s)] = "/"

joinPathsKeepsRelative(base, path) ==
    IF base = << >>
    THEN path
    ELSE IF path = << >>
    THEN base
    ELSE LET b == IF ~HasSuffixSlash(base) THEN base \o <<"/">> ELSE base
             p == IF HasPrefixSlash(path) THEN Tail(path) ELSE path
         IN  b \o p

joinPathsAlwaysAppends(base, path) ==
    IF base = << >>
    THEN IF ~HasPrefixSlash(path) THEN <<"/">> \o path ELSE path
    ELSE IF path = << >>
    THEN base
    ELSE LET b == base \o <<"/">>
             p == IF HasPrefixSlash(path) THEN Tail(path) ELSE path
         IN  b \o p

\* Router.joinPaths
joinPaths(base, path) ==
    IF base = << >>
    THEN IF ~HasPrefixSlash(path) THEN <<"/">> \o path ELSE path
    ELSE IF path = << >>
    THEN base
    ELSE LET b == IF ~HasSuffixSlash(base) THEN base \o <<"/">> ELSE base
             p == IF HasPrefixSlash(path) THEN Tail(path) ELSE path
         IN  b \o p

\* Middleware application m(f): the closure wrapping f
ApplyMiddleware(m, f) == <<m>> \o f

RECURSIVE wrapLoopForward(_, _, _)
wrapLoopForward(mws, i, finalHandler) ==
    IF i < 1 THEN finalHandler
    ELSE wrapLoopForward(mws, i - 1,
                         ApplyMiddleware(mws[Len(mws) - i + 1], finalHandler))

\* the loop of Router.Handle: for i := len-1; i >= 0; i-- { fh = mws[i](fh) }
RECURSIVE wrapLoop(_, _, _)
wrapLoop(mws, i, finalHandler) ==
    IF i < 1 THEN finalHandler
    ELSE wrapLoop(mws, i - 1, ApplyMiddleware(mws[i], finalHandler))

\* the calls m(f) the loop of Router.Handle makes, in the order it makes them
RECURSIVE wrapLoopCalls(_, _)
wrapLoopCalls(mws, i) ==
    IF i < 1 THEN << >> ELSE <<mws[i]>> \o wrapLoopCalls(mws, i - 1)

\* Running a closure: a middleware closure logs, delegates to next once and
\* logs again on the way out; a user handler logs itself.
RECURSIVE Exec(_)
Exec(f) ==
    IF Len(f) = 1 THEN <<[ev |-> "handler", id |-> f[1]]>>
    ELSE <<[ev |-> "pre", id |-> f[1]]>> \o Exec(Tail(f))
             \o <<[ev |-> "post", id |-> f[1]]>>

\* New()
New == [mux |-> 1, prefix |-> << >>, middlewares |-> << >>,
        routes |-> 1, routeInfo |-> 1]

GroupScopeOwnTable(r, prefix) ==
    [mux |-> r.mux, prefix |-> joinPaths(r.prefix, prefix),
     middlewares |-> r.middlewares, routes |-> 2, routeInfo |-> r.routeInfo]

GroupScopeConcat(r, prefix) ==
    [mux |-> r.mux, prefix |-> r.prefix \o prefix,
     middlewares |-> r.middlewares, routes |-> r.routes, routeInfo |-> r.routeInfo]

GroupScopeRawPrefix(r, prefix) ==
    [mux |-> r.mux,
     prefix |-> IF r.prefix = << >> THEN prefix ELSE joinPaths(r.prefix, prefix),
     middlewares |-> r.middlewares, routes |-> r.routes, routeInfo |-> r.routeInfo]

\* Router.Group: the derived Router value
GroupScope(r, prefix) ==
    [mux |-> r.mux, prefix |-> joinPaths(r.prefix, prefix),
     middlewares |-> r.middlewares, routes |-> r.routes, routeInfo |-> r.routeInfo]

UseScopePrepends(r, middlewares) ==
    [mux |-> r.mux, prefix |-> r.prefix,
     middlewares |-> middlewares \o r.middlewares,
     routes |-> r.routes, routeInfo |-> r.routeInfo]

\* Router.Use: the derived Router value
UseScope(r, middlewares) ==
    [mux |-> r.mux, prefix |-> r.prefix,
     middlewares |-> r.middlewares \o middlewares,
     routes |-> r.routes, routeInfo |-> r.routeInfo]

WithScopeReplaces(r, middlewares) ==
    [mux |-> r.mux, prefix |-> r.prefix, middlewares |-> middlewares,
     routes |-> r.routes, routeInfo |-> r.routeInfo]

\* Router.With
WithScope(r, middlewares) == UseScope(r, middlewares)

NeedsBindingAlways(tbl, fullPath) == TRUE

\* Router.Handle, the test r.routes[fullPath] == nil
NeedsBinding(tbl, fullPath) == fullPath \notin DOMAIN tbl

StoreHandlerFreshMap(tbl, fullPath, method, finalHandler) ==
    [p \in DOMAIN tbl \cup {fullPath} |->
        IF p = fullPath THEN [m \in {method} |-> finalHandler] ELSE tbl[p]]

StoreHandlerNewPathEmpty(tbl, fullPath, method, finalHandler) ==
    LET methodHandlers == IF fullPath \in DOMAIN tbl THEN tbl[fullPath] ELSE << >>
    IN  [p \in DOMAIN tbl \cup {fullPath} |->
            IF p = fullPath
            THEN IF fullPath \in DOMAIN tbl
                 THEN [m \in DOMAIN methodHandlers \cup {method} |->
                          IF m = method THEN finalHandler ELSE methodHandlers[m]]
                 ELSE << >>
            ELSE tbl[p]]

StoreHandlerOnlyPath(tbl, fullPath, method, finalHandler) ==
    LET methodHandlers == IF fullPath \in DOMAIN tbl THEN tbl[fullPath] ELSE << >>
    IN  [p \in {fullPath} |->
            [m \in DOMAIN methodHandlers \cup {method} |->
                IF m = method THEN finalHandler ELSE methodHandlers[m]]]

StoreHandlerEveryMethod(tbl, fullPath, method, finalHandler) ==
    LET methodHandlers == IF fullPath \in DOMAIN tbl THEN tbl[fullPath] ELSE << >>
    IN  [p \in DOMAIN tbl \cup {fullPath} |->
            IF p = fullPath
            THEN [m \in DOMAIN methodHandlers \cup {method} |-> finalHandler]
            ELSE tbl[p]]

StoreHandlerKeepFirst(tbl, fullPath, method, finalHandler) ==
    LET methodHandlers == IF fullPath \in DOMAIN tbl THEN tbl[fullPath] ELSE << >>
    IN  [p \in DOMAIN tbl \cup {fullPath} |->
            IF p = fullPath
            THEN [m \in DOMAIN methodHandlers \cup {method} |->
                     IF m \in DOMAIN methodHandlers THEN methodHandlers[m]
                     ELSE finalHandler]
            ELSE tbl[p]]

\* Router.Handle, r.routes[fullPath][method] = finalHandler (after the
\* method map of a new path was made)
StoreHandler(tbl, fullPath, method, finalHandler) ==
    LET methodHandlers == IF fullPath \in DOMAIN tbl THEN tbl[fullPath] ELSE << >>
    IN  [p \in DOMAIN tbl \cup {fullPath} |->
            IF p = fullPath
            THEN [m \in DOMAIN methodHandlers \cup {method} |->
                     IF m = method THEN finalHandler ELSE methodHandlers[m]]
            ELSE tbl[p]]

FullPathIgnoresPrefix(r, path) == joinPaths(<< >>, path)

\* Router.Handle, fullPath := r.joinPaths(r.prefix, path)
FullPath(r, path) == joinPaths(r.prefix, path)

HandleOnRecordsNewOnly(r, method, path, handler) ==
    LET fullPath == FullPath(r, path)
        finalHandler == wrapLoop(r.middlewares, Len(r.middlewares), <<handler>>)
        known == /\ fullPath \in DOMAIN routes[r.routes]
                 /\ method \in DOMAIN routes[r.routes][fullPath]
    IN  /\ mux' = IF NeedsBinding(routes[r.routes], fullPath)
                  THEN [mux EXCEPT ![r.mux] =
                           Append(@, [pattern |-> fullPath, path |-> fullPath,
                                      routes |-> r.routes])]
                  ELSE mux
        /\ routes' = [routes EXCEPT ![r.routes] =
                         StoreHandler(@, fullPath, method, finalHandler)]
        /\ routeInfo' = IF known THEN routeInfo
                        ELSE [routeInfo EXCEPT ![r.routeInfo] =
                                 Append(@, [Method |-> method, Path |-> fullPath,
                                            Prefix |-> r.prefix])]
        /\ calls' = Append(calls, [scope |-> r, method |-> method,
                                   path |-> path, handler |-> handler,
                                   applied |-> wrapLoopCalls(r.middlewares,
                                                             Len(r.middlewares))])

\* Router.Handle on the Router value r
HandleOn(r, method, path, handler) ==
    LET fullPath == FullPath(r, path)
        finalHandler == wrapLoop(r.middlewares, Len(r.middlewares), <<handler>>)
    IN  /\ mux' = IF NeedsBinding(routes[r.routes], fullPath)
                  THEN [mux EXCEPT ![r.mux] =
                           Append(@, [pattern |-> fullPath, path |-> fullPath,
                                      routes |-> r.routes])]
                  ELSE mux
        /\ routes' = [routes EXCEPT ![r.routes] =
                         StoreHandler(@, fullPath, method, finalHandler)]
        /\ routeInfo' = [routeInfo EXCEPT ![r.routeInfo] =
                            Append(@, [Method |-> method, Path |-> fullPath,
                                       Prefix |-> r.prefix])]
        /\ calls' = Append(calls, [scope |-> r, method |-> method,
                                   path |-> path, handler |-> handler,
                                   applied |-> wrapLoopCalls(r.middlewares,
                                                             Len(r.middlewares))])

NoResp == [kind |-> "none", path |-> << >>, method |-> "", status |-> 0,
           allow |-> << >>, invoked |-> << >>, trace |-> << >>,
           applied |-> << >>]

\* every order in which the keys of a map can be iterated
Orders(S) == {s \in [1..Cardinality(S) -> S] : Range(s) = S}

dispatchFallsThrough(b, reqMethod, order) ==
    LET methodHandlers == routes[b.routes][b.path]
    IN  [kind |-> "served", path |-> b.path, method |-> reqMethod,
         status |-> StatusMethodNotAllowed,
         allow |-> order,
         invoked |-> IF reqMethod \in DOMAIN methodHandlers
                     THEN <<methodHandlers[reqMethod]>> ELSE << >>,
         trace |-> IF reqMethod \in DOMAIN methodHandlers
                   THEN Exec(methodHandlers[reqMethod]) ELSE << >>,
         applied |-> << >>]

dispatchRecomposes(b, reqMethod, order) ==
    LET methodHandlers == routes[b.routes][b.path]
    IN  IF reqMethod \in DOMAIN methodHandlers
        THEN LET f == methodHandlers[reqMethod]
             IN  [kind |-> "served", path |-> b.path, method |-> reqMethod,
                  status |-> 0,
                  allow |-> << >>,
                  invoked |-> <<f>>,
                  trace |-> Exec(f),
                  applied |-> wrapLoopCalls(SubSeq(f, 1, Len(f) - 1), Len(f) - 1)]
        ELSE [kind |-> "served", path |-> b.path, method |-> reqMethod,
              status |-> StatusMethodNotAllowed,
              allow |-> order,
              invoked |-> << >>,
              trace |-> << >>,
              applied |-> << >>]

dispatchWrapsNotAllowed(b, reqMethod, order) ==
    LET methodHandlers == routes[b.routes][b.path]
    IN  IF reqMethod \in DOMAIN methodHandlers
        THEN [kind |-> "served", path |-> b.path, method |-> reqMethod,
              status |-> 0,
              allow |-> << >>,
              invoked |-> <<methodHandlers[reqMethod]>>,
              trace |-> Exec(methodHandlers[reqMethod]),
              applied |-> << >>]
        ELSE LET f == IF order = << >> THEN <<"h">> ELSE methodHandlers[order[1]]
                 n == Len(f) - 1
             IN  [kind |-> "served", path |-> b.path, method |-> reqMethod,
                  status |-> StatusMethodNotAllowed,
                  allow |-> order,
                  invoked |-> << >>,
                  trace |-> [i \in 1..(2 * n) |->
                                IF i <= n THEN [ev |-> "pre", id |-> f[i]]
                                ELSE [ev |-> "post", id |-> f[2 * n + 1 - i]]],
                  applied |-> << >>]

FoldCase(m) == IF m \in {"get", "Get"} THEN "GET" ELSE m

dispatchFoldsCase(b, reqMethod, order) ==
    LET methodHandlers == routes[b.routes][b.path]
    IN  IF FoldCase(reqMethod) \in DOMAIN methodHandlers
        THEN [kind |-> "served", path |-> b.path, method |-> reqMethod,
              status |-> 0,
              allow |-> << >>,
              invoked |-> <<methodHandlers[FoldCase(reqMethod)]>>,
              trace |-> Exec(methodHandlers[FoldCase(reqMethod)]),
              applied |-> << >>]
        ELSE [kind |-> "served", path |-> b.path, method |-> reqMethod,
              status |-> StatusMethodNotAllowed,
              allow |-> order,
              invoked |-> << >>,
              trace |-> << >>,
              applied |-> << >>]

\* the closure that Router.dispatch(path) returned for the binding b, run on
\* a request with method reqMethod; order is the iteration order of the map.
\* status is the status the dispatcher itself writes (0: none); applied are
\* the calls m(f) of middleware functions made while serving (none: line 118
\* calls the stored closure).
dispatch(b, reqMethod, order) ==
    LET methodHandlers == routes[b.routes][b.path]
    IN  IF reqMethod \in DOMAIN methodHandlers
        THEN [kind |-> "served", path |-> b.path, method |-> reqMethod,
              status |-> 0,
              allow |-> << >>,
              invoked |-> <<methodHandlers[reqMethod]>>,
              trace |-> Exec(methodHandlers[reqMethod]),
              applied |-> << >>]
        ELSE [kind |-> "served", path |-> b.path, method |-> reqMethod,
              status |-> StatusMethodNotAllowed,
              allow |-> order,
              invoked |-> << >>,
              trace |-> << >>,
              applied |-> << >>]

\* Running a closure whose k-th function panics: the pre-logic of the
\* middleware closures outside it, then the panic; the frames above are
\* unwound, so no post-logic runs.
ExecUntilPanic(f, k) ==
    [i \in 1..k |-> IF i < k THEN [ev |-> "pre", id |-> f[i]]
                    ELSE [ev |-> "panic", id |-> f[i]]]

dispatchRecovers(b, reqMethod, k) ==
    LET f == routes[b.routes][b.path][reqMethod]
    IN  [kind |-> "served", path |-> b.path, method |-> reqMethod,
         status |-> 500,
         allow |-> << >>,
         invoked |-> <<f>>,
         trace |-> ExecUntilPanic(f, k),
         applied |-> << >>]

\* the closure that Router.dispatch(path) returned, run on a request whose
\* method is registered, when the k-th function of the stored closure
\* panics: line 118 is a plain call and neither dispatch nor
\* Router.ServeHTTP defers or recovers, so the panic leaves ServeHTTP
\* (kind "panic") and nothing is written after it
dispatchPanics(b, reqMethod, k) ==
    LET f == routes[b.routes][b.path][reqMethod]
    IN  [kind |-> "panic", path |-> b.path, method |-> reqMethod,
         status |-> 0,
         allow |-> << >>,
         invoked |-> <<f>>,
         trace |-> ExecUntilPanic(f, k),
         applied |-> << >>]

\* ------------------------------------------------------------ compression
\* header map operations of net/http: Header.Set and Header.Del
HeaderSet(h, k, v) == [x \in DOMAIN h \cup {k} |-> IF x = k THEN v ELSE h[x]]
HeaderDel(h, k) == [x \in DOMAIN h \ {k} |-> h[x]]

\* a gzip stream holding data, and its decoding
Gzip(data) == [enc |-> "gzip", data |-> data]
Gunzip(stream) == stream.data

AcceptsGzipExact(accept) == accept = <<"gzip">>

\* strings.Contains(r.Header.Get("Accept-Encoding"), "gzip"): the header value
\* is a sequence of pieces, and the piece "gzip" is that substring
AcceptsGzip(accept) == \E i \in DOMAIN accept : accept[i] = "gzip"

NoComp == [pc |-> "idle", accept |-> << >>, hdr |-> << >>, sink |-> "none",
           gw |-> << >>, body |-> << >>, wrote |-> << >>]

\* no Handle call in progress
NoReg == [pc |-> "idle", r |-> New, method |-> "", fullPath |-> << >>,
          path |-> << >>, handler |-> "", finalHandler |-> << >>]

\* the method names in sorted (lexicographic) order
SortedMethods == <<"DELETE", "GET", "HEAD", "OPTIONS", "PATCH", "POST", "PUT">>
MethodRank(m) == CHOOSE k \in DOMAIN SortedMethods : SortedMethods[k] = m

\* the path tokens in the order of Go's string comparison ("/" is below
\* every letter and digit)
SortedTokens == <<"/", "api", "status", "users", "v1">>
TokenRank(t) == CHOOSE k \in DOMAIN SortedTokens : SortedTokens[k] = t

\* a < b on strings
RECURSIVE PathLess(_, _)
PathLess(a, b) ==
    IF a = << >> THEN b # << >>
    ELSE IF b = << >> THEN FALSE
    ELSE IF a[1] = b[1] THEN PathLess(Tail(a), Tail(b))
    ELSE TokenRank(a[1]) < TokenRank(b[1])

RouteLessMethodFirst(x, y) ==
    IF x.Method = y.Method
    THEN PathLess(x.Path, y.Path)
    ELSE MethodRank(x.Method) < MethodRank(y.Method)

\* Router.PrintRoutes, the less function handed to sort.Slice
RouteLess(x, y) ==
    IF x.Path = y.Path
    THEN MethodRank(x.Method) < MethodRank(y.Method)
    ELSE PathLess(x.Path, y.Path)

\* the response sink under the wrapper (the embedded http.ResponseWriter):
\* the first WriteHeader sets the status and later ones are ignored, and a
\* Write before any WriteHeader sets 200 first
SinkWriteHeader(sink, status) ==
    IF sink.wroteHeader THEN sink
    ELSE [sink EXCEPT !.wroteHeader = TRUE, !.status = status]
SinkWrite(sink, b) ==
    [SinkWriteHeader(sink, StatusOK) EXCEPT !.body = Append(@, b)]

\* no request in the access-logging closure
NoLog == [pc |-> "idle", status |-> 0, size |-> 0,
          sink |-> [wroteHeader |-> FALSE, status |-> 0, body |-> << >>],
          entry |-> [Status |-> 0, Size |-> 0], ops |-> << >>]

\* nothing printed yet
NoPrint == [kind |-> "none", lines |-> << >>, total |-> 0]

\* ---------------------------------------------------------------- actions
\* the caller is sequential: no operation starts while a request is served
Idle == resp.kind = "none"

\* the caller derives at most MaxScopes scopes, one more where a chain of
\* three derivations is followed
MayDerive == Cardinality(scopes) < MaxScopes
MayDeriveChain == Cardinality(scopes) < MaxScopes + 1

RouterInit ==
    /\ scopes = {New}
    /\ routes = [a \in Addrs |-> << >>]
    /\ mux = [a \in Addrs |-> << >>]
    /\ routeInfo = [a \in Addrs |-> << >>]
    /\ calls = << >>
    /\ resp = NoResp
    /\ builders = << >>
    /\ printed = NoPrint
    /\ alog = NoLog

Init ==
    /\ RouterInit
    /\ jbase = << >> /\ jpath = << >> /\ jres = << >> /\ jpc = "idle"
    /\ comp = NoComp
    /\ reg = NoReg
    /\ reqs = << >>

GroupBindsPrefix(r, prefix) ==
    /\ Idle
    /\ scopes' = scopes \cup {GroupScope(r, prefix)}
    /\ mux' = [mux EXCEPT ![r.mux] =
                  Append(@, [pattern |-> joinPaths(r.prefix, prefix),
                             path |-> joinPaths(r.prefix, prefix),
                             routes |-> r.routes])]
    /\ UNCHANGED <<routes, routeInfo, calls, resp>>
    /\ UNCHANGED joinVars
    /\ UNCHANGED outVars
    /\ UNCHANGED auxVars

\* Router.Group on the Router value r
Group(r, prefix) ==
    /\ Idle
    /\ scopes' = scopes \cup {GroupScope(r, prefix)}
    /\ UNCHANGED <<routes, mux, routeInfo, calls, resp>>
    /\ UNCHANGED joinVars
    /\ UNCHANGED outVars
    /\ UNCHANGED auxVars

UseInPlace(r, middlewares) ==
    /\ Idle
    /\ scopes' = (scopes \ {r}) \cup {UseScope(r, middlewares)}
    /\ UNCHANGED <<routes, mux, routeInfo, calls, resp>>
    /\ UNCHANGED joinVars
    /\ UNCHANGED outVars
    /\ UNCHANGED auxVars

Use(r, middlewares) ==
    /\ Idle
    /\ scopes' = scopes \cup {UseScope(r, middlewares)}
    /\ UNCHANGED <<routes, mux, routeInfo, calls, resp>>
    /\ UNCHANGED joinVars
    /\ UNCHANGED outVars
    /\ UNCHANGED auxVars

With(r, middlewares) ==
    /\ Idle
    /\ scopes' = scopes \cup {WithScope(r, middlewares)}
    /\ UNCHANGED <<routes, mux, routeInfo, calls, resp>>
    /\ UNCHANGED joinVars
    /\ UNCHANGED outVars
    /\ UNCHANGED auxVars

NextHandler == HandlerIds[Len(calls) + 1]

Handle(r, method, path) ==
    /\ Idle
    /\ Len(calls) < MaxCalls
    /\ HandleOn(r, method, path, NextHandler)
    /\ UNCHANGED <<scopes, resp>>
    /\ UNCHANGED joinVars
    /\ UNCHANGED outVars
    /\ UNCHANGED auxVars

VerbOnExtrasFirst(r, verb, path, middlewares) ==
    /\ Idle
    /\ Len(calls) < MaxCalls
    /\ IF Len(middlewares) > 0
       THEN HandleOn([r EXCEPT !.middlewares = middlewares \o @], verb, path, NextHandler)
       ELSE HandleOn(r, verb, path, NextHandler)
    /\ UNCHANGED <<scopes, resp>>
    /\ UNCHANGED joinVars
    /\ UNCHANGED outVars
    /\ UNCHANGED auxVars

\* the body shared by Router.GET, Router.POST, ...
VerbOn(r, verb, path, middlewares) ==
    /\ Idle
    /\ Len(calls) < MaxCalls
    /\ IF Len(middlewares) > 0
       THEN HandleOn(WithScope(r, middlewares), verb, path, NextHandler)
       ELSE HandleOn(r, verb, path, NextHandler)
    /\ UNCHANGED <<scopes, resp>>
    /\ UNCHANGED joinVars
    /\ UNCHANGED outVars
    /\ UNCHANGED auxVars

GET(r, path, middlewares) == VerbOn(r, "GET", path, middlewares)

POST(r, path, middlewares) == VerbOn(r, "POST", path, middlewares)

\* Router.ServeHTTP on the Router value r: its mux hands a request whose path
\* equals a bound pattern to that binding's dispatcher; any other path is
\* answered by the mux itself (not found).
ServeHTTP(r, reqMethod, reqPath) ==
    /\ Idle
    /\ LET bound == mux[r.mux]
       IN  \/ \E i \in DOMAIN bound :
                /\ bound[i].pattern = reqPath
                /\ \E order \in Orders(DOMAIN routes[bound[i].routes][bound[i].path]) :
                       resp' = dispatch(bound[i], reqMethod, order)
           \/ /\ \A i \in DOMAIN bound : bound[i].pattern # reqPath
              /\ resp' = [NoResp EXCEPT !.kind = "notfound", !.path = reqPath]
    /\ UNCHANGED <<scopes, routes, mux, routeInfo, calls>>
    /\ UNCHANGED joinVars
    /\ UNCHANGED outVars
    /\ UNCHANGED auxVars

\* ServeHTTP returns to its caller: the response is complete
Return ==
    /\ resp.kind # "none"
    /\ resp' = NoResp
    /\ UNCHANGED <<scopes, routes, mux, routeInfo, calls>>
    /\ UNCHANGED joinVars
    /\ UNCHANGED outVars
    /\ UNCHANGED auxVars

Patterns(a) == {mux[a][i].pattern : i \in DOMAIN mux[a]}
ReqPaths == UNION {Patterns(a) : a \in Addrs} \cup {S_sl_api}

Next ==
    \/ \E r \in scopes, prefix \in GroupArgs : MayDerive /\ Group(r, prefix)
    \/ \E r \in scopes, mws \in UseArgs : MayDerive /\ Use(r, mws)
    \/ \E r \in scopes, mws \in UseArgs : MayDerive /\ With(r, mws)
    \/ \E r \in scopes, m \in Methods, p \in PathArgs : Handle(r, m, p)
    \/ \E r \in scopes, m \in ReqMethods, p \in ReqPaths : ServeHTTP(r, m, p)
    \/ Return

Spec == Init /\ [][Next]_vars

\* ------------------------------------------- per-method calls with extras
ChainNext ==
    \/ \E r \in scopes, mws \in ChainUseArgs : MayDerive /\ Use(r, mws)
    \/ \E r \in scopes, mws \in ChainExtraArgs : GET(r, S_sl_api, mws)
    \/ \E r \in scopes, mws \in ChainExtraArgs : POST(r, S_sl_api, mws)
    \/ \E r \in scopes, m \in ReqMethods, p \in ReqPaths : ServeHTTP(r, m, p)
    \/ Return

ChainSpec == Init /\ [][ChainNext]_vars

\* ------------------------------------------- route builders
RouteJoinsEagerly(r, path) ==
    /\ Idle
    /\ Len(builders) < MaxBuilders
    /\ builders' = Append(builders, [router |-> r, path |-> joinPaths(r.prefix, path),
                                     middlewares |-> << >>])
    /\ UNCHANGED <<scopes, routes, mux, routeInfo, calls, resp>>
    /\ UNCHANGED joinVars
    /\ UNCHANGED outVars
    /\ UNCHANGED <<comp, reg, reqs>>

\* Router.Route
Route(r, path) ==
    /\ Idle
    /\ Len(builders) < MaxBuilders
    /\ builders' = Append(builders, [router |-> r, path |-> path,
                                     middlewares |-> << >>])
    /\ UNCHANGED <<scopes, routes, mux, routeInfo, calls, resp>>
    /\ UNCHANGED joinVars
    /\ UNCHANGED outVars
    /\ UNCHANGED <<comp, reg, reqs>>

RbUsePrepends(rb, middlewares) ==
    /\ Idle
    /\ Len(builders[rb].middlewares) + Len(middlewares) <= MaxBuilderMws
    /\ builders' = [builders EXCEPT ![rb].middlewares = middlewares \o @]
    /\ UNCHANGED <<scopes, routes, mux, routeInfo, calls, resp>>
    /\ UNCHANGED joinVars
    /\ UNCHANGED outVars
    /\ UNCHANGED <<comp, reg, reqs>>

\* RouteBuilder.Use on the builder object rb: appends in place
RbUse(rb, middlewares) ==
    /\ Idle
    /\ Len(builders[rb].middlewares) + Len(middlewares) <= MaxBuilderMws
    /\ builders' = [builders EXCEPT ![rb].middlewares = @ \o middlewares]
    /\ UNCHANGED <<scopes, routes, mux, routeInfo, calls, resp>>
    /\ UNCHANGED joinVars
    /\ UNCHANGED outVars
    /\ UNCHANGED <<comp, reg, reqs>>

RbGETClears(rb) ==
    /\ Idle
    /\ Len(calls) < MaxCalls
    /\ IF Len(builders[rb].middlewares) > 0
       THEN HandleOn(WithScope(builders[rb].router, builders[rb].middlewares),
                     "GET", builders[rb].path, NextHandler)
       ELSE HandleOn(builders[rb].router, "GET", builders[rb].path, NextHandler)
    /\ builders' = [builders EXCEPT ![rb].middlewares = << >>]
    /\ UNCHANGED <<scopes, resp>>
    /\ UNCHANGED joinVars
    /\ UNCHANGED outVars
    /\ UNCHANGED <<comp, reg, reqs>>

\* RouteBuilder.GET: rb.router.GET(rb.path, handler, rb.middlewares...)
RbGET(rb) ==
    GET(builders[rb].router, builders[rb].path, builders[rb].middlewares)

\* RouteBuilder.POST: rb.router.POST(rb.path, handler, rb.middlewares...)
RbPOST(rb) ==
    POST(builders[rb].router, builders[rb].path, builders[rb].middlewares)

BuildNext ==
    \/ \E mws \in BuildUseArgs : MayDerive /\ Use(New, mws)
    \/ \E r \in scopes : Route(r, S_sl_api)
    \/ \E rb \in DOMAIN builders, mws \in RbUseArgs : RbUse(rb, mws)
    \/ \E rb \in DOMAIN builders : RbGET(rb)
    \/ \E r \in scopes, m \in ReqMethods, p \in ReqPaths : ServeHTTP(r, m, p)
    \/ Return

BuildSpec == Init /\ [][BuildNext]_vars

\* ------------------------------------------- builders with several finalizers
FinalUseArgs == {<<"m1", "m2">>}

FinalNext ==
    \/ \E mws \in BuildUseArgs : MayDerive /\ Use(New, mws)
    \/ \E r \in scopes : Route(r, S_api)
    \/ \E rb \in DOMAIN builders, mws \in FinalUseArgs : RbUse(rb, mws)
    \/ \E rb \in DOMAIN builders : RbGET(rb)
    \/ \E rb \in DOMAIN builders : RbPOST(rb)
    \/ \E m \in Methods, p \in ReqPaths : ServeHTTP(New, m, p)
    \/ Return

FinalSpec == Init /\ [][FinalNext]_vars

\* ------------------------------------------- scopes derived by With
WithNext ==
    \/ \E r \in scopes, prefix \in GroupArgs : MayDeriveChain /\ Group(r, prefix)
    \/ \E r \in scopes, mws \in WithArgs : MayDeriveChain /\ With(r, mws)
    \/ \E r \in scopes : GET(r, S_empty, << >>)
    \/ \E p \in ReqPaths : ServeHTTP(New, "GET", p)
    \/ Return

WithSpec == Init /\ [][WithNext]_vars

\* ------------------------------------------- a request through Compression()
AcceptArgs == { << >>, <<"gzip">>, <<"gzip", ", ", "deflate">>, <<"deflate">>,
                <<"deflate", ", ", "gzip">>, <<"GZIP">> }
Bytes == {"a", "b"}

CompInit ==
    /\ RouterInit
    /\ jbase = << >> /\ jpath = << >> /\ jres = << >> /\ jpc = "idle"
    /\ \E accept \in AcceptArgs, hdr \in {<< >>, HeaderSet(<< >>, "Content-Length", "10")} :
           comp = [NoComp EXCEPT !.pc = "call", !.accept = accept, !.hdr = hdr]
    /\ reg = NoReg
    /\ reqs = << >>

\* the closure up to its call of next: next(w, r) on the original sink, or
\* the gzip writer, the compressedWriter, the three header changes and
\* next(crw, r)
CompEnter ==
    /\ comp.pc = "call"
    /\ comp' = IF ~AcceptsGzip(comp.accept)
               THEN [comp EXCEPT !.pc = "next", !.sink = "w"]
               ELSE [comp EXCEPT !.pc = "next", !.sink = "crw",
                        !.hdr = HeaderDel(
                                  HeaderSet(HeaderSet(@, "Content-Encoding", "gzip"),
                                            "Vary", "Accept-Encoding"),
                                  "Content-Length")]
    /\ UNCHANGED <<scopes, routes, mux, routeInfo, calls, resp, builders, reg, reqs>>
    /\ UNCHANGED joinVars
    /\ UNCHANGED outVars

\* the inner handler sets a header: compressedWriter embeds the original
\* ResponseWriter, so Header() is the original's on either sink
InnerSetHeader ==
    /\ comp.pc = "next"
    /\ comp.wrote = << >>
    /\ "Content-Type" \notin DOMAIN comp.hdr
    /\ comp' = [comp EXCEPT !.hdr = HeaderSet(@, "Content-Type", "text/plain")]
    /\ UNCHANGED <<scopes, routes, mux, routeInfo, calls, resp, builders, reg, reqs>>
    /\ UNCHANGED joinVars
    /\ UNCHANGED outVars

\* the inner handler writes one byte: compressedWriter.Write hands it to the
\* gzip writer, the original sink appends it to the body
InnerWrite(b) ==
    /\ comp.pc = "next"
    /\ Len(comp.wrote) < MaxWrites
    /\ comp' = IF comp.sink = "crw"
               THEN [comp EXCEPT !.gw = Append(@, b), !.wrote = Append(@, b)]
               ELSE [comp EXCEPT !.body = Append(@, b), !.wrote = Append(@, b)]
    /\ UNCHANGED <<scopes, routes, mux, routeInfo, calls, resp, builders, reg, reqs>>
    /\ UNCHANGED joinVars
    /\ UNCHANGED outVars

\* next returns
InnerReturn ==
    /\ comp.pc = "next"
    /\ comp' = [comp EXCEPT !.pc = IF comp.sink = "crw" THEN "close" ELSE "done"]
    /\ UNCHANGED <<scopes, routes, mux, routeInfo, calls, resp, builders, reg, reqs>>
    /\ UNCHANGED joinVars
    /\ UNCHANGED outVars

\* defer gw.Close(): the gzip stream of everything written goes to the sink
CompClose ==
    /\ comp.pc = "close"
    /\ comp' = [comp EXCEPT !.pc = "done", !.body = Append(@, Gzip(comp.gw)),
                            !.gw = << >>]
    /\ UNCHANGED <<scopes, routes, mux, routeInfo, calls, resp, builders, reg, reqs>>
    /\ UNCHANGED joinVars
    /\ UNCHANGED outVars

CompNext ==
    \/ CompEnter
    \/ InnerSetHeader
    \/ \E b \in Bytes : InnerWrite(b)
    \/ InnerReturn
    \/ CompClose

CompSpec == CompInit /\ [][CompNext]_vars

\* ------------------------------------------- chains of derivations
AccumNext ==
    \/ \E r \in scopes, mws \in AccumUseArgs : MayDeriveChain /\ Use(r, mws)
    \/ \E r \in scopes, mws \in AccumWithArgs : MayDeriveChain /\ With(r, mws)
    \/ \E r \in scopes, prefix \in GroupArgs : MayDeriveChain /\ Group(r, prefix)
    \/ \E r \in scopes, mws \in AccumExtraArgs : GET(r, S_sl_status, mws)
    \/ \E p \in ReqPaths : ServeHTTP(New, "GET", p)
    \/ Return

AccumSpec == Init /\ [][AccumNext]_vars

\* ------------------------------- a registration racing with a dispatch
\* Router.Handle statement by statement, in one goroutine, while another
\* serves requests; the code takes no lock around the maps.
\* lines 93-98: the key and the composed closure
RegBegin(r, method, path) ==
    /\ reg.pc = "idle"
    /\ Len(calls) < MaxCalls
    /\ reg' = [pc |-> "check", r |-> r, method |-> method,
               fullPath |-> FullPath(r, path), path |-> path,
               handler |-> NextHandler,
               finalHandler |-> wrapLoop(r.middlewares, Len(r.middlewares),
                                         <<NextHandler>>)]
    /\ UNCHANGED <<scopes, routes, mux, routeInfo, calls, resp, builders, comp, reqs>>
    /\ UNCHANGED joinVars
    /\ UNCHANGED outVars

\* line 100: if r.routes[fullPath] == nil
RegCheck ==
    /\ reg.pc = "check"
    /\ reg' = [reg EXCEPT !.pc = IF NeedsBinding(routes[reg.r.routes], reg.fullPath)
                                 THEN "make" ELSE "store"]
    /\ UNCHANGED <<scopes, routes, mux, routeInfo, calls, resp, builders, comp, reqs>>
    /\ UNCHANGED joinVars
    /\ UNCHANGED outVars

\* line 101: r.routes[fullPath] = make(map[string]HandlerFunc)
RegMake ==
    /\ reg.pc = "make"
    /\ routes' = [routes EXCEPT ![reg.r.routes] =
                     [p \in DOMAIN @ \cup {reg.fullPath} |->
                         IF p = reg.fullPath THEN << >> ELSE @[p]]]
    /\ reg' = [reg EXCEPT !.pc = "bind"]
    /\ UNCHANGED <<scopes, mux, routeInfo, calls, resp, builders, comp, reqs>>
    /\ UNCHANGED joinVars
    /\ UNCHANGED outVars

\* line 102: r.mux.HandleFunc(fullPath, r.dispatch(fullPath))
RegBind ==
    /\ reg.pc = "bind"
    /\ mux' = [mux EXCEPT ![reg.r.mux] =
                  Append(@, [pattern |-> reg.fullPath, path |-> reg.fullPath,
                             routes |-> reg.r.routes])]
    /\ reg' = [reg EXCEPT !.pc = "store"]
    /\ UNCHANGED <<scopes, routes, routeInfo, calls, resp, builders, comp, reqs>>
    /\ UNCHANGED joinVars
    /\ UNCHANGED outVars

RegStoreSkips ==
    /\ reg.pc = "store"
    /\ reg' = [reg EXCEPT !.pc = "info"]
    /\ UNCHANGED <<scopes, routes, mux, routeInfo, calls, resp, builders, comp, reqs>>
    /\ UNCHANGED joinVars
    /\ UNCHANGED outVars

\* line 105: r.routes[fullPath][method] = finalHandler
RegStore ==
    /\ reg.pc = "store"
    /\ routes' = [routes EXCEPT ![reg.r.routes] =
                     StoreHandler(@, reg.fullPath, reg.method, reg.finalHandler)]
    /\ reg' = [reg EXCEPT !.pc = "info"]
    /\ UNCHANGED <<scopes, mux, routeInfo, calls, resp, builders, comp, reqs>>
    /\ UNCHANGED joinVars
    /\ UNCHANGED outVars

\* lines 107-111: the routeInfo record; Handle returns
RegInfo ==
    /\ reg.pc = "info"
    /\ routeInfo' = [routeInfo EXCEPT ![reg.r.routeInfo] =
                        Append(@, [Method |-> reg.method, Path |-> reg.fullPath,
                                   Prefix |-> reg.r.prefix])]
    /\ calls' = Append(calls, [scope |-> reg.r, method |-> reg.method,
                               path |-> reg.path, handler |-> reg.handler,
                               applied |-> wrapLoopCalls(reg.r.middlewares,
                                                         Len(reg.r.middlewares))])
    /\ reg' = NoReg
    /\ UNCHANGED <<scopes, routes, mux, resp, builders, comp, reqs>>
    /\ UNCHANGED joinVars
    /\ UNCHANGED outVars

\* the dispatcher's map reads overlap a map write of the registration: the
\* outer map is being written at line 101, the method map of reg.fullPath
\* at line 105
ReadRacesWrite(reqPath) ==
    \/ reg.pc = "make"
    \/ reg.pc = "store" /\ reg.fullPath = reqPath

\* Router.ServeHTTP in the serving goroutine.  The ServeMux is locked
\* internally; the maps are not, and a read that overlaps a write either
\* sees the map as it is before the write or is stopped by the runtime
\* (fatal error: concurrent map read and map write).
RaceServeHTTP(r, reqMethod, reqPath) ==
    /\ resp.kind = "none"
    /\ LET bound == mux[r.mux]
       IN  \/ \E i \in DOMAIN bound :
                /\ bound[i].pattern = reqPath
                /\ \/ \E order \in Orders(DOMAIN routes[bound[i].routes][bound[i].path]) :
                          resp' = dispatch(bound[i], reqMethod, order)
                   \/ /\ ReadRacesWrite(reqPath)
                      /\ resp' = [NoResp EXCEPT !.kind = "fatal", !.path = reqPath,
                                                !.method = reqMethod]
           \/ /\ \A i \in DOMAIN bound : bound[i].pattern # reqPath
              /\ resp' = [NoResp EXCEPT !.kind = "notfound", !.path = reqPath]
    /\ UNCHANGED <<scopes, routes, mux, routeInfo, calls>>
    /\ UNCHANGED joinVars
    /\ UNCHANGED outVars
    /\ UNCHANGED auxVars

\* a fatal error ends the process
Running == resp.kind # "fatal"

RaceNext ==
    \/ \E r \in scopes, m \in Methods, p \in PathArgs : Running /\ RegBegin(r, m, p)
    \/ Running /\ RegCheck
    \/ Running /\ RegMake
    \/ Running /\ RegBind
    \/ Running /\ RegStore
    \/ Running /\ RegInfo
    \/ \E r \in scopes, m \in ReqMethods, p \in ReqPaths : RaceServeHTTP(r, m, p)
    \/ Running /\ Return

RaceSpec == Init /\ [][RaceNext]_vars

\* ------------------------------------------- concurrent dispatches
\* Requests served by concurrent goroutines, statement by statement, after
\* the registrations: the caller registers only before the first request.
ConcReqMethods == {"GET", "PUT"}

\* Router.ServeHTTP line 52: the mux matches the request path
ReqStart(r, reqMethod, reqPath) ==
    /\ Len(reqs) < MaxReqs
    /\ LET bound == mux[r.mux]
           new == [pc |-> "read", method |-> reqMethod, path |-> reqPath,
                   b |-> [pattern |-> << >>, path |-> << >>, routes |-> r.routes],
                   out |-> NoResp]
       IN  \/ \E i \in DOMAIN bound :
                /\ bound[i].pattern = reqPath
                /\ reqs' = Append(reqs, [new EXCEPT !.b = bound[i]])
           \/ /\ \A i \in DOMAIN bound : bound[i].pattern # reqPath
              /\ reqs' = Append(reqs,
                     [new EXCEPT !.pc = "done",
                                 !.out = [NoResp EXCEPT !.kind = "notfound",
                                                        !.path = reqPath]])
    /\ UNCHANGED <<scopes, routes, mux, routeInfo, calls, resp, builders, comp, reg>>
    /\ UNCHANGED joinVars
    /\ UNCHANGED outVars

\* dispatch line 116: methodHandlers := r.routes[path], a reference to the
\* method map of the path
ReqRead(i) ==
    /\ reqs[i].pc = "read"
    /\ reqs' = [reqs EXCEPT ![i].pc = "lookup"]
    /\ UNCHANGED <<scopes, routes, mux, routeInfo, calls, resp, builders, comp, reg>>
    /\ UNCHANGED joinVars
    /\ UNCHANGED outVars

ReqLookupConsumes(i) ==
    /\ reqs[i].pc = "lookup"
    /\ \E order \in Orders(DOMAIN routes[reqs[i].b.routes][reqs[i].b.path]) :
           reqs' = [reqs EXCEPT ![i].pc = "done",
                                ![i].out = dispatch(reqs[i].b, reqs[i].method, order)]
    /\ routes' = [routes EXCEPT ![reqs[i].b.routes][reqs[i].b.path] =
                     [m \in DOMAIN @ \ {reqs[i].method} |-> @[m]]]
    /\ UNCHANGED <<scopes, mux, routeInfo, calls, resp, builders, comp, reg>>
    /\ UNCHANGED joinVars
    /\ UNCHANGED outVars

\* dispatch lines 117-126: the lookup in the method map, then the handler
\* or the 405
ReqLookup(i) ==
    /\ reqs[i].pc = "lookup"
    /\ \E order \in Orders(DOMAIN routes[reqs[i].b.routes][reqs[i].b.path]) :
           reqs' = [reqs EXCEPT ![i].pc = "done",
                                ![i].out = dispatch(reqs[i].b, reqs[i].method, order)]
    /\ UNCHANGED <<scopes, routes, mux, routeInfo, calls, resp, builders, comp, reg>>
    /\ UNCHANGED joinVars
    /\ UNCHANGED outVars

ConcNext ==
    \/ \E r \in scopes, m \in Methods, p \in PathArgs : reqs = << >> /\ Handle(r, m, p)
    \/ \E r \in scopes, m \in ConcReqMethods, p \in ReqPaths : ReqStart(r, m, p)
    \/ \E i \in DOMAIN reqs : ReqRead(i)
    \/ \E i \in DOMAIN reqs : ReqLookup(i)

ConcSpec == Init /\ [][ConcNext]_vars

\* ------------------------------------------- the life of the table and record
PrintRoutesSortsInPlace(r) ==
    /\ Idle
    /\ LET rec == routeInfo[r.routeInfo]
       IN  IF Len(rec) = 0
           THEN /\ printed' = [kind |-> "empty", lines |-> << >>, total |-> 0]
                /\ routeInfo' = routeInfo
           ELSE \E perm \in Orders(DOMAIN rec) :
                    LET sortedRoutes == [i \in DOMAIN rec |-> rec[perm[i]]]
                    IN  /\ \A i, j \in DOMAIN rec :
                              i < j => ~RouteLess(sortedRoutes[j], sortedRoutes[i])
                        /\ routeInfo' = [routeInfo EXCEPT ![r.routeInfo] = sortedRoutes]
                        /\ printed' =
                              [kind |-> "table",
                               lines |-> [i \in DOMAIN rec |->
                                            <<sortedRoutes[i].Method,
                                              sortedRoutes[i].Path>>],
                               total |-> Len(sortedRoutes)]
    /\ UNCHANGED <<scopes, routes, mux, calls, resp, alog>>
    /\ UNCHANGED joinVars
    /\ UNCHANGED auxVars

\* Router.PrintRoutes on the Router value r.  sort.Slice is not stable: it
\* leaves the copy in some order in which no element is less than an earlier
\* one.  lines are the (Method, Path) rows printed, total the printed count.
PrintRoutes(r) ==
    /\ Idle
    /\ LET rec == routeInfo[r.routeInfo]
       IN  IF Len(rec) = 0
           THEN printed' = [kind |-> "empty", lines |-> << >>, total |-> 0]
           ELSE \E perm \in Orders(DOMAIN rec) :
                    LET sortedRoutes == [i \in DOMAIN rec |-> rec[perm[i]]]
                    IN  /\ \A i, j \in DOMAIN rec :
                              i < j => ~RouteLess(sortedRoutes[j], sortedRoutes[i])
                        /\ printed' =
                              [kind |-> "table",
                               lines |-> [i \in DOMAIN rec |->
                                            <<sortedRoutes[i].Method,
                                              sortedRoutes[i].Path>>],
                               total |-> Len(sortedRoutes)]
    /\ UNCHANGED <<scopes, routes, mux, routeInfo, calls, resp, alog>>
    /\ UNCHANGED joinVars
    /\ UNCHANGED auxVars

LifeNext ==
    \/ \E prefix \in GroupArgs : MayDerive /\ Group(New, prefix)
    \/ \E r \in scopes, m \in Methods, p \in PathArgs : Handle(r, m, p)
    \/ \E r \in scopes : PrintRoutes(r)
    \/ \E p \in ReqPaths : ServeHTTP(New, "GET", p)
    \/ Return

LifeSpec == Init /\ [][LifeNext]_vars

\* ------------------------------------------- prefixes of derived scopes
S_api_sl == <<"api", "/">>
S_sl == <<"/">>
PrefixArgs == {S_empty, S_api, S_api_sl, S_sl_api_sl, S_sl}
PrefixUseArgs == {<<"m1">>, <<"m2">>}

PrefixNext ==
    \/ \E r \in scopes, prefix \in PrefixArgs : MayDeriveChain /\ Group(r, prefix)
    \/ \E r \in scopes, mws \in PrefixUseArgs : MayDeriveChain /\ Use(r, mws)
    \/ \E r \in scopes, mws \in PrefixUseArgs : MayDeriveChain /\ With(r, mws)

PrefixSpec == Init /\ [][PrefixNext]_vars

\* ------------------------------------------- a handler or middleware panics
\* the positions in a stored closure at which a function may panic
PanicAt == 1..3

\* Router.ServeHTTP on a request to a registered (path, method) during which
\* the k-th function of the stored closure panics
PanicServeHTTP(r, reqMethod, reqPath, k) ==
    /\ Idle
    /\ \E i \in DOMAIN mux[r.mux] :
           LET b == mux[r.mux][i]
           IN  /\ b.pattern = reqPath
               /\ reqMethod \in DOMAIN routes[b.routes][b.path]
               /\ k \in 1..Len(routes[b.routes][b.path][reqMethod])
               /\ resp' = dispatchPanics(b, reqMethod, k)
    /\ UNCHANGED <<scopes, routes, mux, routeInfo, calls>>
    /\ UNCHANGED joinVars
    /\ UNCHANGED outVars
    /\ UNCHANGED auxVars

PanicNext ==
    \/ \E mws \in UseArgs : MayDerive /\ Use(New, mws)
    \/ \E r \in scopes, m \in Methods, p \in PathArgs : Handle(r, m, p)
    \/ \E m \in ReqMethods, p \in ReqPaths : ServeHTTP(New, m, p)
    \/ \E m \in Methods, p \in ReqPaths, k \in PanicAt : PanicServeHTTP(New, m, p, k)
    \/ Return

PanicSpec == Init /\ [][PanicNext]_vars

\* ------------------------------------------- arbitrary method strings
\* Handle is exported and takes the method as a string: a standard verb, a
\* lower-case spelling, a custom verb, the empty string
MethodArgs == {"GET", "get", "PURGE", ""}
MethodReqArgs == {"GET", "get", "Get", "HEAD", "PURGE", ""}

MethodNext ==
    \/ \E m \in MethodArgs, p \in PathArgs : Handle(New, m, p)
    \/ \E m \in MethodReqArgs, p \in ReqPaths : ServeHTTP(New, m, p)
    \/ Return

MethodSpec == Init /\ [][MethodNext]_vars

\* ------------------------------------------- a request through AccessLogging()
LogStatusArgs == {StatusOK, 404, 500}
LogFrame == <<scopes, routes, mux, routeInfo, calls, resp, printed>>

\* the closure up to its call of next: wrapped := &responseWriter{w, 0, 0}
LogEnter ==
    /\ alog.pc = "idle"
    /\ alog' = [NoLog EXCEPT !.pc = "next"]
    /\ UNCHANGED LogFrame
    /\ UNCHANGED joinVars
    /\ UNCHANGED auxVars

\* responseWriter.WriteHeader, called by the inner handler
RwWriteHeader(status) ==
    /\ alog.pc = "next"
    /\ Len(alog.ops) < MaxSinkCalls
    /\ alog' = [alog EXCEPT !.status = status,
                            !.sink = SinkWriteHeader(@, status),
                            !.ops = Append(@, <<"WriteHeader", status>>)]
    /\ UNCHANGED LogFrame
    /\ UNCHANGED joinVars
    /\ UNCHANGED auxVars

\* responseWriter.Write of one byte, called by the inner handler
RwWrite(b) ==
    /\ alog.pc = "next"
    /\ Len(alog.ops) < MaxSinkCalls
    /\ alog' = [alog EXCEPT !.status = IF @ = 0 THEN StatusOK ELSE @,
                            !.sink = SinkWrite(@, b),
                            !.size = @ + 1,
                            !.ops = Append(@, <<"Write", b>>)]
    /\ UNCHANGED LogFrame
    /\ UNCHANGED joinVars
    /\ UNCHANGED auxVars

\* next returns and the closure builds and writes the log entry
LogReturn ==
    /\ alog.pc = "next"
    /\ alog' = [alog EXCEPT !.pc = "logged",
                            !.entry = [Status |-> alog.status, Size |-> alog.size]]
    /\ UNCHANGED LogFrame
    /\ UNCHANGED joinVars
    /\ UNCHANGED auxVars

\* the closure returns to the server, which completes the response: a
\* response whose header was never written goes out with 200
SinkFinish ==
    /\ alog.pc = "logged"
    /\ alog' = [alog EXCEPT !.pc = "finished",
                            !.sink = SinkWriteHeader(@, StatusOK)]
    /\ UNCHANGED LogFrame
    /\ UNCHANGED joinVars
    /\ UNCHANGED auxVars

LogNext ==
    \/ LogEnter
    \/ \E status \in LogStatusArgs : RwWriteHeader(status)
    \/ \E b \in Bytes : RwWrite(b)
    \/ LogReturn
    \/ SinkFinish

LogSpec == Init /\ [][LogNext]_vars

\* ------------------------------------------- derivations and registrations
FrameUseArgs == {<<"m1">>}
FrameWithArgs == {<<"m2">>}

FrameNext ==
    \/ \E r \in scopes, prefix \in GroupArgs : MayDerive /\ Group(r, prefix)
    \/ \E r \in scopes, mws \in FrameUseArgs : MayDerive /\ Use(r, mws)
    \/ \E r \in scopes, mws \in FrameWithArgs : MayDerive /\ With(r, mws)
    \/ \E r \in scopes : Handle(r, "GET", S_empty)
    \/ \E r \in scopes : POST(r, S_empty, <<"m1">>)
    \/ Route(New, S_api)
    \/ \E rb \in DOMAIN builders : RbGET(rb)
    \/ ServeHTTP(New, "GET", S_sl_api)
    \/ Return

FrameSpec == Init /\ [][FrameNext]_vars

\* ------------------------------------------- nested groups, literal paths
NestNext ==
    \/ \E r \in scopes, prefix \in NestGroupArgs : MayDerive /\ Group(r, prefix)
    \/ \E r \in scopes, p \in NestPathArgs : GET(r, p, << >>)
    \/ \E m \in ReqMethods, p \in ReqPaths : ServeHTTP(New, m, p)
    \/ Return

NestSpec == Init /\ [][NestNext]_vars

\* ------------------------------------------- the path joiner called directly
Tokens == {"/", "a"}
Strings(n) == UNION {[1..k -> Tokens] : k \in 0..n}

\* the operand pairs of TestJoinPathsEdgeCases
JoinLiterals ==
    { <<S_empty, S_empty>>, <<S_empty, <<"users">> >>,
      <<S_empty, <<"/", "users">> >>, <<S_sl_api, S_empty>>,
      <<S_sl_api_sl, S_empty>>, <<S_sl_api_sl, <<"/", "users">> >>,
      <<S_sl_api, <<"/", "users">> >>, <<S_sl_api_sl, <<"users">> >>,
      <<S_sl_api_sl_v1, <<"users", "/", "profile">> >> }

JoinInit ==
    /\ RouterInit
    /\ \E operands \in (Strings(MaxJoinLen) \X Strings(MaxJoinLen)) \cup JoinLiterals :
           jbase = operands[1] /\ jpath = operands[2]
    /\ jres = << >>
    /\ jpc = "call"
    /\ comp = NoComp
    /\ reg = NoReg
    /\ reqs = << >>

JoinCall ==
    /\ jpc = "call"
    /\ jres' = joinPaths(jbase, jpath)
    /\ jpc' = "done"
    /\ UNCHANGED <<scopes, routes, mux, routeInfo, calls, resp, jbase, jpath>>
    /\ UNCHANGED auxVars
    /\ UNCHANGED outVars

JoinNext == JoinCall

JoinSpec == JoinInit /\ [][JoinNext]_vars

\* ================================================================ properties
\* the table, mux and record that New() allocated
RootRoutes == routes[New.routes]
RootPatterns == Patterns(New.mux)

\* the table key a recorded Handle call registered under
KeyOf(c) == joinPaths(c.scope.prefix, c.path)
CallsFor(p, m) == {i \in DOMAIN calls : KeyOf(calls[i]) = p /\ calls[i].method = m}
HasCallFor(p, m) == CallsFor(p, m) # {}
LastCallFor(p, m) == CHOOSE i \in CallsFor(p, m) : \A j \in CallsFor(p, m) : j <= i
RegisteredMethods(p) == {calls[i].method : i \in {j \in DOMAIN calls : KeyOf(calls[j]) = p}}
RegisteredPaths == {KeyOf(calls[i]) : i \in DOMAIN calls}
HandlerHit == resp.kind = "served" /\ resp.invoked # << >>

\* pre-logic of m0..mn-1, the handler, post-logic of mn-1..m0
ExpectedTrace(mws, h) ==
    [i \in 1..(2 * Len(mws) + 1) |->
        IF i <= Len(mws) THEN [ev |-> "pre", id |-> mws[i]]
        ELSE IF i = Len(mws) + 1 THEN [ev |-> "handler", id |-> h]
        ELSE [ev |-> "post", id |-> mws[2 * Len(mws) + 2 - i]]]

\* C1: the handler stored for a registration with effective middleware list
\* m0..mn-1 is m0(m1(...mn-1(h))), and a dispatch to it runs the pre-logic
\* of m0..mn-1 in order, then h once, then the post-logic in reverse order.
C1_MiddlewareNesting ==
    /\ \A i \in DOMAIN calls :
          LET c == calls[i]
          IN  i = LastCallFor(KeyOf(c), c.method) =>
                  /\ KeyOf(c) \in DOMAIN RootRoutes
                  /\ c.method \in DOMAIN RootRoutes[KeyOf(c)]
                  /\ RootRoutes[KeyOf(c)][c.method] = c.scope.middlewares \o <<c.handler>>
    /\ HandlerHit =>
          /\ HasCallFor(resp.path, resp.method)
          /\ LET c == calls[LastCallFor(resp.path, resp.method)]
             IN  resp.trace = ExpectedTrace(c.scope.middlewares, c.handler)

C1_Witness ==
    /\ HandlerHit
    /\ Len(resp.trace) = 5
    /\ resp.trace[1] = [ev |-> "pre", id |-> "m1"]
    /\ resp.trace[2] = [ev |-> "pre", id |-> "m2"]
    /\ resp.trace[3].ev = "handler"
    /\ resp.trace[4] = [ev |-> "post", id |-> "m2"]
    /\ resp.trace[5] = [ev |-> "post", id |-> "m1"]

\* C2: a request to a bound path with a method not registered for it gets
\* 405, the allowed methods are exactly the methods registered for the path
\* (each once), and no handler or middleware runs.
C2_MethodNotAllowed ==
    (resp.kind = "served" /\ resp.method \notin RegisteredMethods(resp.path)) =>
        /\ resp.status = StatusMethodNotAllowed
        /\ Range(resp.allow) = RegisteredMethods(resp.path)
        /\ Len(resp.allow) = Cardinality(RegisteredMethods(resp.path))
        /\ resp.invoked = << >>
        /\ resp.trace = << >>

C2_Witness ==
    /\ resp.kind = "served"
    /\ resp.method = "PUT"
    /\ resp.status = StatusMethodNotAllowed
    /\ Range(resp.allow) = {"GET", "POST"}

\* C3: a request to a bound path with a registered method invokes exactly
\* the handler stored under (path, method), once, and writes no 405; every
\* dispatched request is either a handler hit or a 405, never both or neither.
C3_DispatchHandOff ==
    resp.kind = "served" =>
        /\ resp.method \in RegisteredMethods(resp.path) =>
              /\ resp.invoked = <<RootRoutes[resp.path][resp.method]>>
              /\ resp.status # StatusMethodNotAllowed
        /\ \/ Len(resp.invoked) = 1 /\ resp.status # StatusMethodNotAllowed
           \/ Len(resp.invoked) = 0 /\ resp.status = StatusMethodNotAllowed

C3_Witness ==
    /\ HandlerHit
    /\ resp.method = "POST"
    /\ RegisteredMethods(resp.path) = {"GET", "POST"}
    /\ resp.status = 0

\* C4: the mux holds exactly one binding for every normalized path that was
\* registered (through whatever scopes) and none for any other path.
C4_ExactlyOnceBinding ==
    /\ \A a \in Addrs : \A i, j \in DOMAIN mux[a] :
          mux[a][i].pattern = mux[a][j].pattern => i = j
    /\ RootPatterns = RegisteredPaths
    /\ DOMAIN RootRoutes = RegisteredPaths
    /\ \A a \in Addrs \ {New.mux} : mux[a] = << >>

C4_Witness ==
    /\ Len(calls) = 2
    /\ KeyOf(calls[1]) = KeyOf(calls[2])
    /\ calls[1].scope.prefix # calls[2].scope.prefix
    /\ Len(mux[New.mux]) = 1

\* C5: after the same (method, path) was registered with h1 and then h2,
\* the entry holds h2's finalized handler and a dispatch runs h2, never h1.
C5_OverwriteSemantics ==
    /\ \A p \in DOMAIN RootRoutes : \A m \in DOMAIN RootRoutes[p] :
          /\ HasCallFor(p, m)
          /\ LET f == RootRoutes[p][m]
             IN  f[Len(f)] = calls[LastCallFor(p, m)].handler
    /\ HandlerHit =>
          /\ HasCallFor(resp.path, resp.method)
          /\ LET last == LastCallFor(resp.path, resp.method)
                 ran == {resp.trace[k].id : k \in {n \in DOMAIN resp.trace :
                                                     resp.trace[n].ev = "handler"}}
             IN  ran = {calls[last].handler}

C5_Witness ==
    /\ HandlerHit
    /\ Cardinality(CallsFor(resp.path, resp.method)) = 2
    /\ calls[1].scope # calls[2].scope
    /\ resp.trace[Len(calls[2].scope.middlewares) + 1] =
           [ev |-> "handler", id |-> calls[2].handler]

C7_SharedTable ==
    /\ \A r \in scopes :
          r.routes = New.routes /\ r.mux = New.mux /\ r.routeInfo = New.routeInfo
    /\ \A i \in DOMAIN calls :
          /\ KeyOf(calls[i]) \in RootPatterns
          /\ KeyOf(calls[i]) \in DOMAIN RootRoutes
          /\ calls[i].method \in DOMAIN RootRoutes[KeyOf(calls[i])]
    /\ resp.kind = "notfound" => resp.path \notin RegisteredPaths
    /\ (resp.kind = "served" /\ resp.method \in RegisteredMethods(resp.path)) =>
          LET c == calls[LastCallFor(resp.path, resp.method)]
          IN  resp.invoked = <<c.scope.middlewares \o <<c.handler>> >>

C7_Witness ==
    /\ HandlerHit
    /\ LET c == calls[LastCallFor(resp.path, resp.method)]
       IN  /\ c.scope \in scopes \ {New}
           /\ c.scope.prefix # << >>
           /\ c.scope.middlewares # << >>
           /\ resp.trace[1] = [ev |-> "pre", id |-> c.scope.middlewares[1]]

\* C8: Group(p) on a scope with prefix q yields prefix join(q, p), and GET(c)
\* on a scope with prefix q creates the key and binding join(q, c) and no
\* other; root.Group("/api").Group("/v1").GET("/status") creates exactly
\* "/api/v1/status".
C8_GroupNesting ==
    [][ /\ \A r \in scopes, p \in NestGroupArgs :
              Group(r, p) =>
                  scopes' = scopes \cup {[r EXCEPT !.prefix = joinPaths(r.prefix, p)]}
        /\ \A r \in scopes, c \in NestPathArgs :
              GET(r, c, << >>) =>
                  /\ DOMAIN RootRoutes' = DOMAIN RootRoutes \cup {joinPaths(r.prefix, c)}
                  /\ RootPatterns' = RootPatterns \cup {joinPaths(r.prefix, c)}
                  /\ "GET" \in DOMAIN RootRoutes'[joinPaths(r.prefix, c)]
        /\ Group(New, S_sl_api) => [New EXCEPT !.prefix = S_sl_api] \in scopes'
        /\ \A r \in scopes :
              (r.prefix = S_sl_api /\ Group(r, S_sl_v1)) =>
                  [r EXCEPT !.prefix = S_sl_api_sl_v1] \in scopes'
        /\ \A r \in scopes :
              (r.prefix = S_sl_api_sl_v1 /\ calls = << >> /\ GET(r, S_sl_status, << >>)) =>
                  /\ DOMAIN RootRoutes' = {S_sl_api_sl_v1_sl_status}
                  /\ RootPatterns' = {S_sl_api_sl_v1_sl_status}
      ]_vars

C8_Witness ==
    /\ \E r \in scopes : r.prefix = S_sl_api
    /\ Len(calls) = 1
    /\ calls[1].scope.prefix = S_sl_api_sl_v1
    /\ calls[1].scope \in scopes
    /\ calls[1].path = S_sl_status
    /\ DOMAIN RootRoutes = {S_sl_api_sl_v1_sl_status}
    /\ RootPatterns = {S_sl_api_sl_v1_sl_status}
    /\ HandlerHit
    /\ resp.path = S_sl_api_sl_v1_sl_status

S_users == <<"users">>
S_sl_users == <<"/", "users">>
S_sl_api_sl_users == <<"/", "api", "/", "users">>

\* C9: join("", path) is path when it starts with "/" and "/" + path
\* otherwise (so join("", "") = "/"); join(base, "") is base unchanged for
\* every non-empty base, trailing slash included.
C9_JoinEmptyOperands ==
    jpc = "done" =>
        /\ jbase = << >> =>
              /\ jres = (IF HasPrefixSlash(jpath) THEN jpath ELSE <<"/">> \o jpath)
              /\ jres[1] = "/"
        /\ (jbase # << >> /\ jpath = << >>) => jres = jbase
        /\ (jbase = S_empty /\ jpath = S_empty) => jres = <<"/">>
        /\ (jbase = S_empty /\ jpath = S_users) => jres = S_sl_users
        /\ (jbase = S_empty /\ jpath = S_sl_users) => jres = S_sl_users
        /\ (jbase = S_sl_api /\ jpath = S_empty) => jres = S_sl_api
        /\ (jbase = S_sl_api_sl /\ jpath = S_empty) => jres = S_sl_api_sl

C9_Witness ==
    /\ jpc = "done"
    /\ jbase = S_empty
    /\ jpath = S_users
    /\ jres = S_sl_users

C11_DirectParameters ==
    [][ \A r \in scopes, e \in ChainExtraArgs, verb \in Methods :
            VerbOn(r, verb, S_sl_api, e) =>
                LET key == joinPaths(r.prefix, S_sl_api)
                    viaUse == UseScope(r, e)
                IN  /\ RootRoutes'[key][verb] = (r.middlewares \o e) \o <<NextHandler>>
                    /\ routes' = [routes EXCEPT ![viaUse.routes] =
                                     StoreHandler(@, FullPath(viaUse, S_sl_api), verb,
                                         wrapLoop(viaUse.middlewares,
                                                  Len(viaUse.middlewares), <<NextHandler>>))]
                    /\ scopes' = scopes
                    /\ \A p \in DOMAIN RootRoutes : \A m \in DOMAIN RootRoutes[p] :
                          (p # key \/ m # verb) => RootRoutes'[p][m] = RootRoutes[p][m]
      ]_vars

C11_Witness ==
    /\ scopes = {New, UseScope(New, <<"m2">>)}
    /\ Len(calls) = 2
    /\ S_sl_api \in DOMAIN RootRoutes
    /\ DOMAIN RootRoutes[S_sl_api] = {"GET", "POST"}
    /\ RootRoutes[S_sl_api]["GET"] = <<"m2", "m1", "m2", "h1">>
    /\ RootRoutes[S_sl_api]["POST"] = <<"m2", "h2">>
    /\ HandlerHit
    /\ resp.method = "POST"
    /\ resp.trace = ExpectedTrace(<<"m2">>, "h2")

\* C12: a builder accumulates the lists of its Use calls in call order, so
\* Use(m1, m2) and Use(m1).Use(m2) leave it with the same list, and its
\* terminal GET stores, under the key of the builder's scope and path, h
\* wrapped by the scope's chain, then the accumulated list, exactly like the
\* direct-parameter registration on that scope with that list; a dispatch
\* then runs scope chain, m1, m2, h.
C12_RouteBuilder ==
    [][ /\ \A rb \in DOMAIN builders, ms \in RbUseArgs :
              RbUse(rb, ms) =>
                  /\ builders'[rb].middlewares = builders[rb].middlewares \o ms
                  /\ builders'[rb].router = builders[rb].router
                  /\ builders'[rb].path = builders[rb].path
        /\ \A rb \in DOMAIN builders :
              RbGET(rb) =>
                  LET b == builders[rb]
                      key == joinPaths(b.router.prefix, b.path)
                      direct == UseScope(b.router, b.middlewares)
                  IN  /\ RootRoutes'[key]["GET"] =
                             (b.router.middlewares \o b.middlewares) \o <<NextHandler>>
                      /\ calls'[Len(calls')].scope = direct
                      /\ calls'[Len(calls')].method = "GET"
                      /\ key \in RootPatterns'
                      /\ builders' = builders /\ scopes' = scopes
        /\ (HandlerHit' /\ ~HandlerHit) =>
              resp'.trace = Exec(RootRoutes[resp'.path][resp'.method])
      ]_vars

C12_Witness ==
    /\ Len(builders) = 1
    /\ builders[1] = [router |-> UseScope(New, <<"m3">>), path |-> S_sl_api,
                       middlewares |-> <<"m1", "m2">>]
    /\ Len(calls) = 2
    /\ calls[1].scope = UseScope(New, <<"m3", "m1">>)
    /\ calls[2].scope = UseScope(New, <<"m3", "m1", "m2">>)
    /\ RootRoutes[S_sl_api]["GET"] = <<"m3", "m1", "m2", "h2">>
    /\ HandlerHit
    /\ resp.method = "GET"
    /\ resp.trace = ExpectedTrace(<<"m3", "m1", "m2">>, "h2")

\* C13: between operations a path is a key of the route table exactly when
\* some method was registered for it, and the method mapping of every key
\* holds exactly the methods registered for it, so it is never empty.
C13_RouteTableInvariant ==
    /\ \A a \in Addrs : \A p \in DOMAIN routes[a] : DOMAIN routes[a][p] # {}
    /\ \A p \in RegisteredPaths : p \in DOMAIN RootRoutes
    /\ \A p \in DOMAIN RootRoutes :
          /\ RegisteredMethods(p) # {}
          /\ DOMAIN RootRoutes[p] = RegisteredMethods(p)

C13_Witness ==
    /\ DOMAIN RootRoutes = {<<"/">>, S_sl_api}
    /\ Cardinality(DOMAIN RootRoutes[<<"/">>]) = 1
    /\ Cardinality(DOMAIN RootRoutes[S_sl_api]) = 1
    /\ Cardinality(scopes) = 3
    /\ resp.kind = "served"
    /\ resp.status = StatusMethodNotAllowed

\* C14: s.With(ms) creates the scope that s.Use(ms) creates: the prefix,
\* table, mux and record of s, and the list of s followed by ms in order;
\* a route registered on it is stored and run with that list.
C14_WithIsUse ==
    [][ /\ \A r \in scopes, ms \in WithArgs :
              With(r, ms) =>
                  /\ scopes' = scopes \cup {UseScope(r, ms)}
                  /\ \A n \in scopes' \ scopes :
                        /\ n.prefix = r.prefix
                        /\ n.middlewares = r.middlewares \o ms
                        /\ n.routes = r.routes /\ n.mux = r.mux
                        /\ n.routeInfo = r.routeInfo
        /\ \A r \in scopes :
              GET(r, S_empty, << >>) =>
                  RootRoutes'[joinPaths(r.prefix, S_empty)]["GET"] =
                      r.middlewares \o <<NextHandler>>
        /\ (HandlerHit' /\ ~HandlerHit) =>
              LET c == calls[LastCallFor(resp'.path, resp'.method)]
              IN  resp'.trace = ExpectedTrace(c.scope.middlewares, c.handler)
      ]_vars

C14_Witness ==
    LET g == GroupScope(New, S_api)
        w == UseScope(UseScope(g, <<"m1">>), <<"m2">>)
    IN  /\ scopes = {New, g, UseScope(g, <<"m1">>), w}
        /\ Len(calls) = 1
        /\ calls[1].scope = w
        /\ RootRoutes[S_sl_api]["GET"] = <<"m1", "m2", "h1">>
        /\ HandlerHit
        /\ resp.trace = ExpectedTrace(<<"m1", "m2">>, "h1")

\* C15: the inner handler gets the compressing sink exactly when the
\* Accept-Encoding value contains "gzip".  Then Content-Encoding: gzip and
\* Vary: Accept-Encoding are set and Content-Length is absent from the
\* moment the inner handler starts, no byte reaches the body except inside
\* the gzip stream, and the finished body is the gzip stream of all bytes
\* written.  Otherwise the inner handler gets the original sink, no
\* Content-Encoding is set and the body is the bytes written.
C15_CompressionBranch ==
    LET wantsGzip == \E i \in 1..Len(comp.accept) : comp.accept[i] = "gzip"
        h == comp.hdr
    IN  comp.pc \in {"next", "close", "done"} =>
            /\ comp.sink = "crw" <=> wantsGzip
            /\ comp.sink = "w" <=> ~wantsGzip
            /\ wantsGzip =>
                  /\ "Content-Encoding" \in DOMAIN h /\ h["Content-Encoding"] = "gzip"
                  /\ "Vary" \in DOMAIN h /\ h["Vary"] = "Accept-Encoding"
                  /\ "Content-Length" \notin DOMAIN h
                  /\ comp.pc # "done" => comp.body = << >> /\ comp.gw = comp.wrote
                  /\ comp.pc = "done" =>
                        /\ comp.body = <<Gzip(comp.wrote)>>
                        /\ Gunzip(comp.body[1]) = comp.wrote
            /\ ~wantsGzip =>
                  /\ "Content-Encoding" \notin DOMAIN h
                  /\ comp.body = comp.wrote
                  /\ comp.gw = << >>
                  /\ \A i \in DOMAIN comp.body : comp.body[i] \in Bytes

C15_Witness ==
    /\ comp.pc = "done"
    /\ comp.accept = <<"gzip", ", ", "deflate">>
    /\ comp.wrote = <<"a", "b">>
    /\ comp.body = <<Gzip(<<"a", "b">>)>>
    /\ DOMAIN comp.hdr = {"Content-Encoding", "Vary", "Content-Type"}

\* C16: one Handle call applies each middleware of the registering scope's
\* list exactly once (from the last to the first), and serving a request
\* applies none: it invokes the closure the table already holds and leaves
\* the table as it is.
C16_ComposedAtRegistration ==
    [][ /\ \A r \in scopes, m \in Methods, p \in PathArgs :
              Handle(r, m, p) =>
                  LET made == calls'[Len(calls')].applied
                      n == Len(r.middlewares)
                  IN  /\ Len(made) = n
                      /\ \A i \in 1..n : made[i] = r.middlewares[n + 1 - i]
                      /\ Len(RootRoutes'[joinPaths(r.prefix, p)][m]) = n + 1
        /\ (resp'.kind = "served" /\ resp.kind = "none") =>
              /\ resp'.applied = << >>
              /\ routes' = routes /\ calls' = calls
              /\ resp'.invoked # << >> =>
                    resp'.invoked = <<RootRoutes[resp'.path][resp'.method]>>
      ]_vars

C16_Witness ==
    /\ HandlerHit
    /\ resp.applied = << >>
    /\ Len(resp.trace) = 5
    /\ LET c == calls[LastCallFor(resp.path, resp.method)]
       IN  /\ c.scope.middlewares = <<"m1", "m2">>
           /\ c.applied = <<"m2", "m1">>
           /\ resp.invoked = <<<<"m1", "m2", c.handler>> >>

S_sl_api_sl_status == <<"/", "api", "/", "status">>

BoundEmpty(p) ==
    \E a \in Addrs : \E i \in DOMAIN mux[a] :
        /\ mux[a][i].pattern = p
        /\ DOMAIN routes[mux[a][i].routes][mux[a][i].path] = {}
EmptyAllow(rsp) ==
    rsp.kind = "served" /\ rsp.status = StatusMethodNotAllowed /\ rsp.allow = << >>

\* C18 as stated: while a registration and a dispatch interleave, no bound
\* path has an empty method mapping and no 405 has an empty Allow list.
C18_NonEmptyUnderRace ==
    /\ \A p \in ReqPaths : ~BoundEmpty(p)
    /\ ~EmptyAllow(resp)

\* C18 amended: a bound path has an empty method mapping only between the
\* binding (line 102) and the store (line 105) of the registration that
\* creates it, and a dispatch answers 405 with an empty Allow list only when
\* it runs in that window, for that path; with no registration in progress
\* every bound path has a method and every 405 lists one.
C18_EmptyOnlyInWindow ==
    [][ /\ \A p \in ReqPaths :
              BoundEmpty(p) => (reg.pc = "store" /\ reg.fullPath = p)
        /\ \A p \in ReqPaths' :
              BoundEmpty(p)' => (reg'.pc = "store" /\ reg'.fullPath = p)
        /\ (EmptyAllow(resp') /\ resp.kind = "none") =>
              /\ reg.pc = "store" /\ reg.fullPath = resp'.path
              /\ BoundEmpty(resp'.path)
        /\ (reg.pc = "idle" /\ resp'.kind = "served" /\ resp.kind = "none"
              /\ resp'.status = StatusMethodNotAllowed) =>
              /\ resp'.allow # << >>
              /\ Range(resp'.allow) = RegisteredMethods(resp'.path)
      ]_vars

C18_Witness ==
    /\ reg.pc = "store"
    /\ BoundEmpty(reg.fullPath)
    /\ EmptyAllow(resp)
    /\ resp.path = reg.fullPath
    /\ Len(calls) = 1

\* the outcomes of a request served alone on the tables as they are
AloneOutcomes(reqMethod, reqPath) ==
    LET bs == {b \in Range(mux[New.mux]) : b.pattern = reqPath}
    IN  IF bs = {}
        THEN {[NoResp EXCEPT !.kind = "notfound", !.path = reqPath]}
        ELSE UNION {{dispatch(b, reqMethod, order) :
                        order \in Orders(DOMAIN routes[b.routes][b.path])} : b \in bs}

\* C19: no step of a dispatch changes the route table, the bindings, the
\* registration record or a scope, and every request served concurrently
\* with others after the registrations ends with an outcome it can have
\* when served alone.
C19_DispatchReadOnly ==
    [][ /\ reqs' # reqs =>
              /\ routes' = routes /\ mux' = mux /\ routeInfo' = routeInfo
              /\ scopes' = scopes /\ calls' = calls
        /\ \A i \in DOMAIN reqs' :
              reqs'[i].pc = "done" =>
                  reqs'[i].out \in AloneOutcomes(reqs'[i].method, reqs'[i].path)
      ]_vars

C19_Witness ==
    /\ Len(reqs) = 2
    /\ Len(calls) = 2
    /\ reqs[1].pc = "lookup"
    /\ reqs[2].pc = "done"
    /\ reqs[1].path = reqs[2].path
    /\ reqs[1].method = "GET" /\ reqs[2].method = "GET"
    /\ reqs[2].out.kind = "served"
    /\ reqs[2].out.invoked # << >>

IsSorted(allow) ==
    \A i, j \in DOMAIN allow : i < j => MethodRank(allow[i]) < MethodRank(allow[j])

\* C20: the Allow list of every 405 is in sorted order, and two dispatches
\* of the same unregistered method to the same path against the same route
\* table carry the same Allow value.
C20_AllowSorted ==
    /\ \A i \in DOMAIN reqs :
          (reqs[i].pc = "done" /\ reqs[i].out.status = StatusMethodNotAllowed) =>
              IsSorted(reqs[i].out.allow)
    /\ \A i, j \in DOMAIN reqs :
          (/\ reqs[i].pc = "done" /\ reqs[j].pc = "done"
           /\ reqs[i].out.status = StatusMethodNotAllowed
           /\ reqs[j].out.status = StatusMethodNotAllowed
           /\ reqs[i].method = reqs[j].method /\ reqs[i].path = reqs[j].path) =>
              reqs[i].out.allow = reqs[j].out.allow

\* C21: no step removes a key of the route table, a method of a key or a
\* binding, and after every step each registration made so far still has a
\* finalized handler under its (path, method) and a binding for its path.
C21_MonotonicTable ==
    [][ /\ \A a \in Addrs :
              /\ Patterns(a) \subseteq Patterns(a)'
              /\ \A p \in DOMAIN routes[a] :
                    /\ p \in DOMAIN routes'[a]
                    /\ DOMAIN routes[a][p] \subseteq DOMAIN routes'[a][p]
        /\ Len(calls) <= Len(calls') /\ SubSeq(calls', 1, Len(calls)) = calls
        /\ \A i \in DOMAIN calls' :
              LET k == KeyOf(calls'[i])
              IN  /\ k \in DOMAIN RootRoutes'
                  /\ calls'[i].method \in DOMAIN RootRoutes'[k]
                  /\ Len(RootRoutes'[k][calls'[i].method]) >= 1
                  /\ k \in RootPatterns'
      ]_vars

C21_Witness ==
    /\ Len(calls) = 2
    /\ KeyOf(calls[1]) = <<"/">> /\ calls[1].method = "GET"
    /\ KeyOf(calls[2]) = S_sl_api /\ calls[2].scope.prefix = S_sl_api
    /\ DOMAIN RootRoutes = {<<"/">>, S_sl_api}
    /\ RootPatterns = {<<"/">>, S_sl_api}
    /\ printed.kind = "table"
    /\ HandlerHit /\ resp.path = <<"/">>

\* C22: the prefix of every scope derived from New() by Group, Use and
\* With, whatever the prefix strings, is empty or begins with "/".
C22_PrefixInvariant ==
    \A r \in scopes : r.prefix = << >> \/ r.prefix[1] = "/"

C22_Witness ==
    LET g == [New EXCEPT !.prefix = S_sl]
        a == [New EXCEPT !.prefix = S_sl_api]
        t == [New EXCEPT !.prefix = <<"/", "api", "/", "api", "/">>]
    IN  scopes = {New, g, a, t}

\* C23: a finalizer of a builder stores, under the builder's joined path and
\* the finalizer's method, the handler wrapped by the scope's list followed
\* by the accumulator as it is at that call; it leaves the accumulator, the
\* builder and every other method entry of the path as they are, so a second
\* finalizer with no builder Use in between stores the same middleware
\* sequence under its own method.
C23_SeveralFinalizers ==
    [][ /\ \A rb \in DOMAIN builders, verb \in Methods :
              ((verb = "GET" /\ RbGET(rb)) \/ (verb = "POST" /\ RbPOST(rb))) =>
                  LET b == builders[rb]
                      k == joinPaths(b.router.prefix, b.path)
                      chain == b.router.middlewares \o b.middlewares
                  IN  /\ builders' = builders
                      /\ scopes' = scopes
                      /\ RootRoutes'[k][verb] = chain \o <<NextHandler>>
                      /\ calls'[Len(calls')].method = verb
                      /\ calls'[Len(calls')].scope.middlewares = chain
                      /\ k \in DOMAIN RootRoutes =>
                            /\ DOMAIN RootRoutes'[k] = DOMAIN RootRoutes[k] \cup {verb}
                            /\ \A m \in DOMAIN RootRoutes[k] \ {verb} :
                                  RootRoutes'[k][m] = RootRoutes[k][m]
        /\ (HandlerHit' /\ ~HandlerHit) =>
              LET f == RootRoutes[resp'.path][resp'.method]
              IN  resp'.trace = ExpectedTrace(SubSeq(f, 1, Len(f) - 1), f[Len(f)])
      ]_vars

C23_Witness ==
    /\ Len(builders) = 1
    /\ builders[1] = [router |-> UseScope(New, <<"m3">>), path |-> S_api,
                       middlewares |-> <<"m1", "m2">>]
    /\ Len(calls) = 2
    /\ calls[1].method = "GET" /\ calls[2].method = "POST"
    /\ DOMAIN RootRoutes = {S_sl_api}
    /\ RootRoutes[S_sl_api]["GET"] = <<"m3", "m1", "m2", "h1">>
    /\ RootRoutes[S_sl_api]["POST"] = <<"m3", "m1", "m2", "h2">>
    /\ HandlerHit
    /\ resp.method = "GET"
    /\ resp.trace = ExpectedTrace(<<"m3", "m1", "m2">>, "h1")

\* C24: Route(path) and Use on a builder leave the route table, the
\* bindings, the registration record and every scope (so the owning scope's
\* list) as they are; the new builder holds the scope, the path as given and
\* an empty accumulator; Use changes the accumulator only; the path is
\* joined with the scope's prefix when a finalizer runs, and the builder
\* keeps the path as given.
C24_RouteIsDeferred ==
    [][ /\ \A r \in scopes :
              Route(r, S_api) =>
                  /\ routes' = routes /\ mux' = mux /\ routeInfo' = routeInfo
                  /\ calls' = calls /\ scopes' = scopes
                  /\ builders' = Append(builders, [router |-> r, path |-> S_api,
                                                   middlewares |-> << >>])
        /\ \A rb \in DOMAIN builders, ms \in FinalUseArgs :
              RbUse(rb, ms) =>
                  /\ routes' = routes /\ mux' = mux /\ routeInfo' = routeInfo
                  /\ calls' = calls /\ scopes' = scopes
                  /\ builders'[rb].router = builders[rb].router
                  /\ builders'[rb].path = builders[rb].path
                  /\ builders'[rb].middlewares = builders[rb].middlewares \o ms
                  /\ \A o \in DOMAIN builders \ {rb} : builders'[o] = builders[o]
        /\ \A rb \in DOMAIN builders :
              (RbGET(rb) \/ RbPOST(rb)) =>
                  /\ KeyOf(calls'[Len(calls')]) =
                         joinPaths(builders[rb].router.prefix, builders[rb].path)
                  /\ builders'[rb].path = S_api
      ]_vars

C24_Witness ==
    /\ Len(builders) = 1
    /\ builders[1] = [router |-> UseScope(New, <<"m3">>), path |-> S_api,
                       middlewares |-> <<"m1", "m2">>]
    /\ scopes = {New, UseScope(New, <<"m3">>)}
    /\ calls = << >>
    /\ RootRoutes = << >>
    /\ mux[New.mux] = << >>
    /\ routeInfo[New.routeInfo] = << >>

\* the rows that are equal to row x
RowsEqual(rows, x) == {i \in DOMAIN rows : rows[i] = x}

\* C25: the listing of a PrintRoutes call has one row for every record of
\* the registration record (so for every Handle call made through any
\* scope), and its rows are in ascending order of path, rows of the same
\* path in ascending order of method, whatever the registration order.
C25_IntrospectionOrder ==
    [][ \A r \in scopes :
            PrintRoutes(r) =>
                LET rows == printed'.lines
                    rec == [i \in DOMAIN routeInfo[New.routeInfo] |->
                               <<routeInfo[New.routeInfo][i].Method,
                                 routeInfo[New.routeInfo][i].Path>>]
                IN  /\ Len(rows) = Len(calls)
                    /\ printed'.total = Len(calls)
                    /\ \A i \in DOMAIN calls :
                          <<calls[i].method, KeyOf(calls[i])>> \in Range(rows)
                    /\ \A x \in Range(rows) \cup Range(rec) :
                          Cardinality(RowsEqual(rows, x)) = Cardinality(RowsEqual(rec, x))
                    /\ \A i, j \in DOMAIN rows :
                          i < j =>
                              \/ PathLess(rows[i][2], rows[j][2])
                              \/ /\ rows[i][2] = rows[j][2]
                                 /\ MethodRank(rows[i][1]) <= MethodRank(rows[j][1])
      ]_vars

C25_Witness ==
    /\ Len(calls) = 2
    /\ calls[1].method = "GET" /\ KeyOf(calls[1]) = S_sl_api
    /\ calls[1].scope.prefix = S_sl_api
    /\ calls[2].method = "POST" /\ KeyOf(calls[2]) = <<"/">>
    /\ printed.kind = "table"
    /\ printed.lines = << <<"POST", <<"/">> >>, <<"GET", S_sl_api>> >>

\* C26: every scope holds the one record; a Handle call puts exactly one
\* element (method, joined path, prefix of the registering scope) at its end;
\* no step removes, changes or reorders an earlier element; and every step
\* that is not a registration, PrintRoutes among them, leaves it as it is.
C26_RecordAppendOnly ==
    [][ /\ \A r \in scopes : r.routeInfo = New.routeInfo
        /\ \A a \in Addrs :
              /\ Len(routeInfo[a]) <= Len(routeInfo'[a])
              /\ SubSeq(routeInfo'[a], 1, Len(routeInfo[a])) = routeInfo[a]
        /\ \A r \in scopes, m \in Methods, p \in PathArgs :
              Handle(r, m, p) =>
                  routeInfo'[New.routeInfo] =
                      routeInfo[New.routeInfo] \o
                          <<[Method |-> m, Path |-> joinPaths(r.prefix, p),
                             Prefix |-> r.prefix]>>
        /\ \A r \in scopes : PrintRoutes(r) => routeInfo' = routeInfo
        /\ calls' = calls => routeInfo' = routeInfo
      ]_vars

C26_Witness ==
    /\ routeInfo[New.routeInfo] =
           << [Method |-> "POST", Path |-> S_sl_api, Prefix |-> S_sl_api],
              [Method |-> "GET", Path |-> S_sl_api, Prefix |-> << >>] >>
    /\ printed.kind = "table"
    /\ printed.lines = << <<"GET", S_sl_api>>, <<"POST", S_sl_api>> >>
    /\ printed.total = 2

\* the response holds a panic event
Panicked(rsp) == \E i \in DOMAIN rsp.trace : rsp.trace[i].ev = "panic"

\* C27: when a function of the finalized handler panics during a dispatch,
\* the panic leaves ServeHTTP as raised (it is the last event, nothing runs
\* after it and it carries the identity of the function that raised it), the
\* dispatcher writes no status and no Allow list, and the route table, the
\* bindings, the registration record and the scopes are unchanged.
C27_FailurePassThrough ==
    [][ (Panicked(resp') /\ resp.kind = "none") =>
            LET f == RootRoutes[resp'.path][resp'.method]
                n == Len(resp'.trace)
            IN  /\ resp'.kind = "panic"
                /\ resp'.status = 0
                /\ resp'.allow = << >>
                /\ resp'.invoked = <<f>>
                /\ n <= Len(f)
                /\ resp'.trace[n] = [ev |-> "panic", id |-> f[n]]
                /\ \A i \in 1..(n - 1) : resp'.trace[i] = [ev |-> "pre", id |-> f[i]]
                /\ routes' = routes /\ mux' = mux /\ routeInfo' = routeInfo
                /\ scopes' = scopes /\ calls' = calls
      ]_vars

C27_Witness ==
    /\ resp.kind = "panic"
    /\ resp.method = "GET"
    /\ resp.path = S_sl_api
    /\ RootRoutes[S_sl_api]["GET"] = <<"m1", "m2", "h1">>
    /\ resp.trace = << [ev |-> "pre", id |-> "m1"], [ev |-> "panic", id |-> "m2"] >>
    /\ resp.status = 0
    /\ Len(calls) = 2

\* C28: Handle with any method string stores the finalized handler under
\* exactly that string and adds no other method; a dispatch runs a handler
\* exactly when the request method is, as a string, a method stored for the
\* path, and then the handler stored under it; otherwise it answers 405 with
\* the stored methods, so "get", "Get" and HEAD get 405 from a path that
\* holds only GET.
C28_MethodsUninterpreted ==
    [][ /\ \A m \in MethodArgs, p \in PathArgs :
              Handle(New, m, p) =>
                  LET k == joinPaths(<< >>, p)
                      before == IF k \in DOMAIN RootRoutes
                                THEN DOMAIN RootRoutes[k] ELSE {}
                  IN  /\ DOMAIN RootRoutes'[k] = before \cup {m}
                      /\ RootRoutes'[k][m] = <<NextHandler>>
                      /\ calls'[Len(calls')].method = m
        /\ resp.kind = "served" =>
              LET stored == DOMAIN RootRoutes[resp.path]
              IN  /\ resp.method \in stored =>
                        /\ resp.invoked = <<RootRoutes[resp.path][resp.method]>>
                        /\ resp.status = 0
                  /\ resp.method \notin stored =>
                        /\ resp.invoked = << >>
                        /\ resp.status = StatusMethodNotAllowed
                        /\ Range(resp.allow) = stored
                  /\ (stored = {"GET"} /\ resp.method \in {"get", "Get", "HEAD"}) =>
                        resp.status = StatusMethodNotAllowed
      ]_vars

C28_Witness ==
    /\ Len(calls) = 2
    /\ calls[1].method = "" /\ calls[2].method = "GET"
    /\ DOMAIN RootRoutes = {S_sl_api}
    /\ DOMAIN RootRoutes[S_sl_api] = {"", "GET"}
    /\ resp.kind = "served"
    /\ resp.method = "get"
    /\ resp.status = StatusMethodNotAllowed
    /\ Range(resp.allow) = {"", "GET"}

\* C29: when a request through the access-logging closure is complete, the
\* status in the log entry (the wrapper's recorded status) is the status the
\* underlying response sink took, whatever WriteHeader and Write calls the
\* inner handler made.
C29_StatusConsistency ==
    alog.pc = "finished" => alog.entry.Status = alog.sink.status

\* the route table, the bindings and the registration record
RoutingState == <<routes, mux, routeInfo>>

\* C30: Group, Use and With add one scope, which holds the receiver's
\* table, mux and record, and leave the route table, the bindings, the
\* registration record and every existing scope (the receiver among them) as
\* they are; a step changes the table, the bindings or the record only if it
\* is a Handle call, made directly, by a per-method call or by a builder
\* finalizer.
C30_DerivationFrame ==
    [][ /\ \A r \in scopes :
              (\/ \E g \in GroupArgs : Group(r, g)
               \/ \E ms \in FrameUseArgs : Use(r, ms)
               \/ \E ms \in FrameWithArgs : With(r, ms)) =>
                  /\ RoutingState' = RoutingState
                  /\ calls' = calls
                  /\ scopes \subseteq scopes'
                  /\ r \in scopes'
                  /\ Cardinality(scopes' \ scopes) <= 1
                  /\ \A n \in scopes' \ scopes :
                        n.routes = r.routes /\ n.mux = r.mux /\ n.routeInfo = r.routeInfo
        /\ RoutingState' # RoutingState =>
              /\ scopes' = scopes
              /\ \/ \E r \in scopes : Handle(r, "GET", S_empty)
                 \/ \E r \in scopes : POST(r, S_empty, <<"m1">>)
                 \/ \E rb \in DOMAIN builders : RbGET(rb)
      ]_vars

C30_Witness ==
    /\ Len(calls) = 2
    /\ calls[1].scope = New
    /\ calls[2].scope.prefix = S_sl_api
    /\ DOMAIN RootRoutes = {<<"/">>, S_sl_api}
    /\ scopes = {New, GroupScope(New, S_api),
                 UseScope(GroupScope(New, S_api), <<"m1">>)}
    /\ Len(mux[New.mux]) = 2
    /\ Len(routeInfo[New.routeInfo]) = 2

\* the (path, method) keys of the root's route table
TableKeys ==
    UNION {{<<p, m>> : m \in DOMAIN RootRoutes[p]} : p \in DOMAIN RootRoutes}

\* C31: a registration of (p, m) sets the entry (p, m), adds the binding of
\* p when p had none and changes no other binding; every other (path,
\* method) entry, of the same path or of another, registered through this or
\* another scope, holds the handler it held, and a dispatch of any other
\* (path, method) has the outcomes it had.
C31_RegistrationFrame ==
    [][ Len(calls') = Len(calls) + 1 =>
            LET c == calls'[Len(calls')]
                p == KeyOf(c)
                old == mux[New.mux]
            IN  /\ RootRoutes'[p][c.method] = c.scope.middlewares \o <<c.handler>>
                /\ \A k \in TableKeys :
                      k # <<p, c.method>> =>
                          /\ k \in TableKeys'
                          /\ RootRoutes'[k[1]][k[2]] = RootRoutes[k[1]][k[2]]
                /\ TableKeys' = TableKeys \cup {<<p, c.method>>}
                /\ mux'[New.mux] = IF p \in RootPatterns THEN old
                                   ELSE Append(old, [pattern |-> p, path |-> p,
                                                     routes |-> New.routes])
                /\ \A i \in DOMAIN old : \A m \in ReqMethods :
                      (old[i].path # p \/ (m # c.method /\ m \in DOMAIN RootRoutes[p])) =>
                          \A order \in Orders(DOMAIN RootRoutes[old[i].path]) :
                              dispatch(old[i], m, order)' = dispatch(old[i], m, order)
      ]_vars

C31_Witness ==
    /\ Len(calls) = 2
    /\ calls[1].scope = New /\ calls[1].method = "GET"
    /\ calls[2].scope = UseScope(UseScope(New, <<"m1">>), <<"m1">>)
    /\ calls[2].method = "POST"
    /\ RootRoutes[<<"/">>]["GET"] = <<"h1">>
    /\ RootRoutes[<<"/">>]["POST"] = <<"m1", "m1", "h2">>
    /\ Len(mux[New.mux]) = 1

\* the middleware of every scope
ScopeMiddlewares == UNION {Range(r.middlewares) : r \in scopes}

\* C32: a request answered with 405 runs nothing: no stored closure is
\* invoked, no middleware function is applied, and no pre-logic, handler or
\* post-logic event occurs, so no middleware of any scope runs, whatever
\* middleware wraps the handlers stored for the path.
C32_NotAllowedBypassesMiddleware ==
    (resp.kind = "served" /\ resp.status = StatusMethodNotAllowed) =>
        /\ resp.invoked = << >>
        /\ resp.applied = << >>
        /\ resp.trace = << >>
        /\ \A i \in DOMAIN resp.trace : resp.trace[i].id \notin ScopeMiddlewares

C32_Witness ==
    /\ resp.kind = "served"
    /\ resp.status = StatusMethodNotAllowed
    /\ resp.method = "POST"
    /\ DOMAIN RootRoutes[resp.path] = {"GET"}
    /\ RootRoutes[resp.path]["GET"] = <<"m1", "m2", "h1">>
    /\ UseScope(New, <<"m1", "m2">>) \in scopes
    /\ resp.trace = << >>

\* the (method, path) pairs occurring in the registration record
RecordPairs ==
    {<<routeInfo[New.routeInfo][i].Method, routeInfo[New.routeInfo][i].Path>> :
        i \in DOMAIN routeInfo[New.routeInfo]}

\* C33: between operations the (method, path) pairs of the registration
\* record are exactly the (path, method) keys of the route table, and the
\* record has one element per Handle call made, so it is at least as long
\* as the table has keys (longer after a re-registration); a printed route
\* count is the length of a record, never more than the calls made.
C33_RecordVersusTable ==
    /\ RecordPairs = {<<k[2], k[1]>> : k \in TableKeys}
    /\ Len(routeInfo[New.routeInfo]) = Len(calls)
    /\ Cardinality(TableKeys) <= Len(routeInfo[New.routeInfo])
    /\ printed.kind = "table" =>
          /\ printed.total = Len(printed.lines)
          /\ printed.total <= Len(calls)
          /\ Range(printed.lines) \subseteq RecordPairs

C33_Witness ==
    /\ Len(calls) = 2
    /\ KeyOf(calls[1]) = KeyOf(calls[2])
    /\ calls[1].method = calls[2].method
    /\ calls[1].scope # calls[2].scope
    /\ Cardinality(TableKeys) = 1
    /\ Len(routeInfo[New.routeInfo]) = 2
    /\ printed.kind = "table"
    /\ printed.total = 2
    /\ printed.lines[1] = printed.lines[2]

====
